---- MODULE Spec2Model ----
(***************************************************************************)
(* Creator-Studio: the agent orchestration core.                           *)
(*                                                                         *)
(*   panel (AIPanel.tsx)  --invoke-->  host  --stdin/stdout-->  engine     *)
(*                                                                         *)
(* The engine is packages/ai-engine (cli.ts, agent.ts, tools.ts) driving   *)
(* the multi-step generateText loop of the AI SDK; the host is the Tauri   *)
(* side that spawns the engine, executes tools and answers the ai_chat     *)
(* and ai_cancel commands.                                                 *)
(***************************************************************************)
EXTENDS Integers, Sequences, FiniteSets, TLC

(***************************************************************************)
(* Bounds of the model.                                                    *)
(***************************************************************************)
\* most tool calls one model response may carry
MaxBatch == 2
\* most tool calls the host reports to the panel in one turn
MaxCalls == 2
\* the stop button is pressed only while the stream token is below this
MaxToken == 3
\* most file modifications the host performs in one invocation; a write
\* tool executed after that fails at the host
MaxEffects == 2
\* most turns and discards the user starts in the panel
MaxTurns == 2

(***************************************************************************)
(* Program constants.                                                      *)
(***************************************************************************)
\* agent.ts: generateText({ ..., maxSteps: 10 })
MaxSteps == 10

\* tools.ts: the registry, in declaration order
tools == <<"read", "write", "append", "list", "search", "get_chapter_info", "save_summary">>

\* the tools that modify files (named as the write tools in the system prompt of AIPanel.tsx)
WriteTools == {"append", "write", "save_summary"}

\* tool names the model asks for in this model: a read tool, a write tool,
\* and a name that is not in the registry
RequestedNames == {"read", "append", "delete"}

\* the provider allow-list and the model id of a request: an unrestricted
\* provider, a listed model, a model outside a non-empty list
Requests == {[models |-> {}, model |-> "m1"],
             [models |-> {"m1"}, model |-> "m1"],
             [models |-> {"m1"}, model |-> "m2"]}

\* the first line the host writes to the engine
FirstLines == {"chat", "fetch_models", "compact", "other", "malformed", "eof"}

\* AIPanel.tsx COMPACT_CONFIG
COMPACT_maxTokens == 8000
COMPACT_thresholdPercent == 80
COMPACT_keepRecent == 5
\* AIPanel.tsx sendMessage: workingMessages.slice(-20)
SafeCount == 20

\* lengths (in characters) of the messages of this model: what the user
\* types, a summary or plain reply, a continuation preview (long enough that
\* the history [typed text, preview, typed text] is estimated at exactly the
\* compaction threshold)
ShortText == 8
ReplyText == 400
PreviewText == 25536
\* the number of messages a session already holds when the panel opens it
\* (when it is not a new session)
PriorLen == 20
\* lengths of the texts handleConfirmDraft and handleRegenerateDraft send
ConfirmChars == 50
RegenerateChars == 28

\* what the user types, as the part inferContinuePhase looks at (core), the
\* trailing punctuation it strips (tail) and the length:
\*   "queren zhuijia" contains the explicit confirmation, "ok" is one of the
\*   short confirmations, "zhuijia" one of the append phrases, "" is a
\*   message of punctuation only
UserTexts == {[core |-> c, tail |-> t, chars |-> ShortText] :
                 c \in {"queren zhuijia", "ok", "zhuijia", "other"}, t \in {"", "!"}}
             \cup {[core |-> "", tail |-> "!", chars |-> ShortText]}

(***************************************************************************)
(* Error messages.                                                         *)
(***************************************************************************)
ErrModelNotAllowed == "Model not allowed by provider"
ErrUnknownRequest == "Unknown request type"
ErrExpectedToolResult == "Expected tool_result"
ErrEOF == "EOF before complete JSON"
ErrJSON == "JSON Parse error"
ErrNoSuchTool == "NoSuchToolError"
ErrProvider == "completion request failed"
ErrCapabilityDenied == "CapabilityDenied"
ErrToolExecution == "ToolExecutionError"
ErrNoResult == "No result returned for tool"
\* the text the panel recognises as a stop (its first alternative, in pinyin)
TextCancelled == "yi ting zhi sheng cheng"
TextEngineExit == "engine exited without a response"
\* lib/ai.ts aiChat: no active provider (the text names the settings and "Provider")
TextConfigMissing == "qing xian zai she zhi ... Provider"
TextStore == "session store failure"
\* utils/error.ts formatError: the text for an empty message
TextUnknown == "wei zhi cuo wu"

VARIABLES
    \* ---- panel (AIPanel.tsx) ----
    loading,            \* useState loading
    streamToken,        \* streamTokenRef.current
    streamingContent,   \* useState streamingContent: "", "stopping" or "text"
    pendingToolCalls,   \* useState pendingToolCalls: [id, status, duration]
    toolCallStartTimes, \* the ids in toolCallStartTimesRef
    \* ---- host (Tauri side) ----
    invoke,             \* the command running the engine (ai_chat): [st, text]
    allowWrite,         \* ai_chat parameter allowWrite
    hostNext,           \* index in batch of the next tool_call event the host reads
    effects,            \* write-tool executions that modified a file
    pipe,               \* host -> engine stdin: chunks not yet read
    \* ---- engine (cli.ts / agent.ts / tools.ts) ----
    enginePc,           \* position of main()
    input,              \* main(): input.type of the request read, "" before
    provider,           \* ProviderConfig.models of the request
    model,              \* ModelParameters.model of the request
    sdkCreated,         \* createSDK has been called
    netCalls,           \* completion requests issued (generation steps)
    text,               \* text of the last generation step
    finishReason,       \* finish reason of the last generation step
    batch,              \* tool calls of the current step: [id, name, st, err]
    readers,            \* pending stdinReader.read() requests, FIFO, by batch index
    stdinBuffer,        \* stdinBuffer: chunks of an incomplete line
    settled,            \* the calls of the current step in the order their callbacks returned
    history,            \* the tool results the last completed step appended to the working history
    terminal,           \* done / error events written to stdout
    exitCode,           \* process exit code, -1 while running
    \* ---- engine (provider.ts / models.ts): the requests to the provider ----
    vendor,             \* providerType of the provider the user configured
    apiKey,             \* its apiKey, "" when empty
    providerHeaders,    \* its headers (ProviderConfig.headers)
    baseURL,            \* its baseURL: the host, then slashes and segments
    requests,           \* the HTTP requests sent: [kind, url, headers]
    responses,          \* the outcomes of the model-listing requests, in order
    \* ---- panel (AIPanel.tsx), the turn ----
    mode,               \* prop mode: "Continue" or "Discussion"
    chapterResolved,    \* resolveContinueChapter(currentSession) is not null
    loadingSessions,    \* useState loadingSessions
    loadingMessages,    \* useState loadingMessages
    savingPresets,      \* useState savingPresets
    sessions,           \* useState sessions (their ids)
    currentSessionId,   \* useState currentSessionId, 0 for null
    messagesInSession,  \* useState messagesInSession
    dismissedDraftIds,  \* useState dismissedDraftIds
    sendPc,             \* position of the running sendMessage, "idle" without one
    turn,               \* its locals: continuePhase, allowWrite, sourceDraftMessageId, streamToken, session
    messagesForAi,      \* the messages it passes to aiChat
    reply,              \* what aiChat returned: [isDraft, appended, chars]
    streaming,          \* the stream token of the running simulated streaming loop, 0 without one
    notice,             \* the message.info / message.error the last step has shown, "" for none
    configMissing,      \* useState configMissing
    pendingDiscards,    \* handleDiscardDraft calls awaiting addSessionMessage, per session
    discarded,          \* history: the ids of the drafts the user has discarded
    \* ---- host: the session store ----
    store,              \* the messages of every session
    nextId,             \* the id of the next stored message
    \* ---- history variables ----
    turns,              \* turns and discards started so far (bounded by MaxTurns)
    inFlight,           \* sendMessage calls past their guard and not yet ended
    stopInDispatch,     \* a stop was pressed while a tool call was being dispatched
    \* ---- editor (useAutoSave.ts, Editor.tsx): saving the chapter ----
    value,              \* the Editor's useState value: useAutoSave's content
    initialContent,     \* prop initialContent: the chapter content the layout loaded
    lastSavedContent,   \* useState lastSavedContent
    status,             \* useState status: "saved", "unsaved" or "saving"
    timerRef,           \* the pending debounce timer: the content its callback closed over, <<>> without one
    isSavingRef,        \* isSavingRef.current
    onSaveCalls,        \* the onSave calls not yet settled: the content each was given
    edits,              \* history: inputs of the user so far (bounded by MaxEdits)
    saveFailed,         \* history: an onSave call has rejected
    timerSkipped,       \* history: a debounce callback returned at the isSavingRef guard
    \* ---- editor (Editor.tsx): inline completion ----
    viewRef,            \* viewRef.current: the identity of the EditorView of the chapter
    cursor,             \* view.state.selection.main.head
    selectionEmpty,     \* view.state.selection.main.empty
    inlineCompletion,   \* inlineCompletionField: the seq of the request whose text is shown, 0 for ""
    completionTimerRef, \* a scheduleCompletion timer is pending
    completionSeqRef,   \* completionSeqRef.current
    completingRef,      \* completingRef.current
    aiCompleteCalls     \* the aiComplete calls not yet settled, with what happened since each was issued

configVars == <<vendor, apiKey, providerHeaders, baseURL>>
requestVars == <<configVars, requests, responses>>
toolCallVars == <<pendingToolCalls, toolCallStartTimes>>
autoSaveVars == <<value, initialContent, lastSavedContent, status, timerRef, isSavingRef, onSaveCalls,
                  edits, saveFailed, timerSkipped>>
completionVars == <<viewRef, cursor, selectionEmpty, inlineCompletion, completionTimerRef, completionSeqRef,
                    completingRef, aiCompleteCalls>>
editorVars == <<autoSaveVars, completionVars>>
panelVars == <<loading, streamToken, streamingContent, toolCallVars>>
hostVars == <<invoke, allowWrite, hostNext, effects, pipe>>
engineVars == <<enginePc, input, provider, model, sdkCreated, netCalls, text, finishReason, batch,
                readers, stdinBuffer, settled, history, terminal, exitCode, requestVars>>
turnVars == <<mode, chapterResolved, loadingSessions, loadingMessages, savingPresets, sessions,
              currentSessionId, messagesInSession, dismissedDraftIds, sendPc, turn,
              messagesForAi, reply, streaming, notice, configMissing, pendingDiscards, discarded,
              store, nextId, turns, inFlight>>
vars == <<panelVars, hostVars, engineVars, editorVars, turnVars, stopInDispatch>>

(***************************************************************************)
(* Helpers.                                                                *)
(***************************************************************************)
Range(s) == {s[i] : i \in 1..Len(s)}

\* tools.ts getToolDef: the name is in the registry
getToolDef(name) == \E i \in 1..Len(tools) : tools[i] = name

\* tools.ts getToolsForSDK: the names of the tool set handed to generateText;
\* a tool call of the response with another name makes generateText reject
\* (NoSuchToolError) before any execute callback of the response runs
getToolsForSDKWithDelete ==
    {n \in {"read", "write", "append", "list", "search", "get_chapter_info", "save_summary"} :
        getToolDef(n)} \cup {"delete"}

getToolsForSDK ==
    {n \in {"read", "write", "append", "list", "search", "get_chapter_info", "save_summary"} :
        getToolDef(n)}

toolResultsAsSettled(calls, order) == [k \in 1..Len(order) |-> calls[order[k]].id]

\* generateText: the tool results of a step are collected by the position of
\* their call in the response (Promise.all), whatever the order in which the
\* execute callbacks returned, and are appended to the messages of the next step
toolResults(calls, order) == [i \in 1..Len(calls) |-> calls[i].id]

\* the batches a model response may carry: 1..MaxBatch names
Batches == UNION {[1..n -> RequestedNames] : n \in 1..MaxBatch}

NoLine == [type |-> "none", results |-> <<>>]
ResultLine(id, err) == [type |-> "tool_result", results |-> <<[id |-> id, err |-> err]>>]
MalformedLine == [type |-> "malformed", results |-> <<>>]
OtherLine == [type |-> "other", results |-> <<>>]

\* tools.ts makeExecute: results.find((r) => r.id === id) ?? results[0]
PickResult(results, id) ==
    IF \E i \in 1..Len(results) : results[i].id = id
    THEN results[CHOOSE i \in 1..Len(results) :
                    /\ results[i].id = id
                    /\ \A j \in 1..(i - 1) : results[j].id # id]
    ELSE IF Len(results) > 0 THEN results[1]
    ELSE [id |-> 0, err |-> ErrNoResult]

\* tools.ts makeExecute: what the call of `id` makes of one tool_result line:
\* "" when it returns result.result, the message it throws otherwise
makeExecute(results, id) ==
    IF Len(results) = 0 THEN ErrNoResult ELSE PickResult(results, id).err

ModelAllowedNoCheck(models, m) == TRUE

\* agent.ts Agent.run: the allow-list check
ModelAllowed(models, m) == ~(Cardinality(models) > 0 /\ m \notin models)

\* the capability gate of the host: a write tool outside the apply phase
CapabilityGate(name, allow) == name \in WriteTools /\ ~allow

\* the ids createSession hands out, in this order
SessionIds == {1, 2}

\* a stored message: metadata.applied is "null" (absent), "false" or "true";
\* grant records whether the invocation that produced it had allowWrite
Msg(id, role, applied, chars, grant) ==
    [id |-> id, role |-> role, applied |-> applied, chars |-> chars, grant |-> grant]

NoReply == [isDraft |-> FALSE, appended |-> FALSE, chars |-> 0, id |-> 0, grant |-> FALSE]

NoTurn == [phase |-> "draft", allowWrite |-> FALSE, source |-> 0, token |-> 0, session |-> 0,
           chars |-> 0, msgs |-> <<>>]

\* the failures ai_chat rejects with (the error events of the engine, or
\* its exit without one)
FailureTexts == {ErrModelNotAllowed, ErrProvider, ErrToolExecution, TextEngineExit}

LastNAll(s, n) == s

\* s.slice(-n)
LastN(s, n) == IF Len(s) <= n THEN s ELSE SubSeq(s, Len(s) - n + 1, Len(s))

RECURSIVE SumChars(_)
SumChars(msgs) == IF msgs = <<>> THEN 0 ELSE Head(msgs).chars + SumChars(Tail(msgs))

\* Math.ceil(a / b)
Ceil(a, b) == (a + b - 1) \div b

\* AIPanel.tsx estimateTokensForMessages
estimateTokensForMessages(msgs) == Ceil(SumChars(msgs), 4) + Len(msgs) * 4

OverThresholdInclusive(msgs) ==
    estimateTokensForMessages(msgs) * 100 >= COMPACT_maxTokens * COMPACT_thresholdPercent

\* AIPanel.tsx sendMessage: COMPACT_CONFIG.maxTokens * COMPACT_CONFIG.compactThreshold
OverThreshold(msgs) ==
    estimateTokensForMessages(msgs) * 100 > COMPACT_maxTokens * COMPACT_thresholdPercent

\* utils/error.ts formatError on the error texts of this model (none of them
\* carries one of the prefixes or the os error texts it rewrites)
formatError(t) == IF t = "" THEN TextUnknown ELSE t

IsStopTextNever(t) == FALSE

\* AIPanel.tsx sendMessage, catch: the stop pattern
IsStopText(t) == t \in {TextCancelled}

\* AIPanel.tsx sendMessage, catch: the texts that set configMissing
IsConfigText(t) == t \in {TextConfigMissing}

BusyWithoutLoading == loadingSessions \/ loadingMessages \/ savingPresets

\* AIPanel.tsx: const busy
busy == loading \/ loadingSessions \/ loadingMessages \/ savingPresets

\* AIPanel.tsx: const currentSession, as "there is one"
currentSession == currentSessionId \in sessions

\* AIPanel.tsx actionableDraftId: the last assistant message with
\* applied === false that is not dismissed, 0 for null
actionableDraftId ==
    LET c == {i \in 1..Len(messagesInSession) :
                 /\ messagesInSession[i].role = "assistant"
                 /\ messagesInSession[i].applied = "false"
                 /\ messagesInSession[i].id \notin dismissedDraftIds}
    IN IF c = {} THEN 0 ELSE messagesInSession[CHOOSE i \in c : \A j \in c : j <= i].id

\* inferContinuePhase: userText.trim().replace(/[.!?]+$/g, "")
Normalize(userText) == userText.core

inferContinuePhaseOfPending(userText) ==
    IF actionableDraftId = 0 THEN "draft"
    ELSE IF Normalize(userText) \in {"queren zhuijia", "ok", "zhuijia"} THEN "apply"
    ELSE "draft"

\* AIPanel.tsx inferContinuePhase
inferContinuePhase(userText) ==
    LET normalized == Normalize(userText)
        a == {i \in 1..Len(messagesInSession) : messagesInSession[i].role = "assistant"}
        d == {i \in a : messagesInSession[i].applied = "false"}
        lastAssistantIndex == IF a = {} THEN -1 ELSE CHOOSE i \in a : \A j \in a : j <= i
        lastDraftIndex == IF d = {} THEN -1 ELSE CHOOSE i \in d : \A j \in d : j <= i
    IN IF normalized = "" THEN "draft"
       ELSE IF lastDraftIndex = -1 THEN "draft"
       ELSE IF normalized = "queren zhuijia" THEN "apply"
       ELSE IF lastAssistantIndex # lastDraftIndex THEN "draft"
       ELSE IF normalized \in {"ok", "zhuijia"} THEN "apply"
       ELSE "draft"

AllowWriteAlways(continuePhase) == TRUE

\* AIPanel.tsx sendMessage: const allowWrite = continuePhase === "apply"
AllowWriteOf(continuePhase) == continuePhase = "apply"

(***************************************************************************)
(* Engine: provider.ts and models.ts, the requests sent to the provider.   *)
(* A URL is a host followed by slashes and segments, one element each; a   *)
(* header is a name and a value, a value a scheme and a key.               *)
(***************************************************************************)
\* the ids the model gives its tool calls
CallIds == {1, 2}

Vendors == {"openai-compatible", "google", "anthropic"}
ApiKeys == {"", "k"}
BaseURLs == {<<"h">>, <<"h", "/">>, <<"h", "/", "/">>,
             <<"h", "/", "v1">>, <<"h", "/", "v1", "/">>}

Header(n, scheme, key) == [name |-> n, value |-> [scheme |-> scheme, key |-> key]]

\* ProviderConfig.headers: absent, or one header the user configured
ProviderHeaders == {{}, {Header("Authorization", "custom", "")}}

\* the outcomes of one model-listing request: a success, a status that is
\* not ok, or a failure of the request itself, whose message may hold any text
Responses ==
    {[status |-> "ok", body |-> b] :
        b \in {<<"a">>, <<"b", "a">>, <<"a", "a">>, <<" ", "b">>, <<" a", "b">>}}
    \cup {[status |-> st, body |-> <<>>] : st \in {"404", "500", "failed 404", "failed"}}

\* {...a, ...b}
Spread(a, b) == {h \in a : \A g \in b : g.name # h.name} \cup b

\* provider.ts buildAuthHeaders
buildAuthHeaders(providerType, key) ==
    IF key = "" THEN {}
    ELSE CASE providerType = "google" -> {Header("x-goog-api-key", "", key)}
           [] providerType = "anthropic" -> {Header("x-api-key", "", key)}
           [] OTHER -> {}

\* provider.ts createSDK: the headers of the requests of the SDK it returns;
\* createOpenAICompatible puts Authorization: Bearer before the headers it
\* is given when it is given an apiKey
createSDK(providerType, key, hdrs) ==
    LET authHeaders == buildAuthHeaders(providerType, key)
        mergedHeaders == Spread(authHeaders, hdrs)
        sdkKey == IF providerType = "openai-compatible" THEN key ELSE ""
    IN Spread(IF sdkKey = "" THEN {} ELSE {Header("Authorization", "Bearer", sdkKey)},
              mergedHeaders)

\* models.ts authHeaders
authHeaders(providerType, key) ==
    IF key = "" THEN {}
    ELSE CASE providerType = "google" -> {Header("x-goog-api-key", "", key)}
           [] providerType = "anthropic" -> {Header("x-api-key", "", key)}
           [] OTHER -> {Header("Authorization", "Bearer", key)}

\* models.ts joinURL: the trailing slashes of the base are dropped
joinURLConcat(base, path) == base \o path

RECURSIVE StripSlashes(_)
\* s.replace(/\/+$/, '')
StripSlashes(s) ==
    IF s # <<>> /\ s[Len(s)] = "/" THEN StripSlashes(SubSeq(s, 1, Len(s) - 1)) ELSE s

joinURL(base, path) ==
    StripSlashes(base) \o (IF Head(path) = "/" THEN path ELSE <<"/">> \o path)

\* s.endsWith('/v1')
endsWithV1(s) == Len(s) >= 2 /\ s[Len(s) - 1] = "/" /\ s[Len(s)] = "v1"

ensureV1Same(base) == base

\* models.ts ensureV1
ensureV1(base) ==
    LET trimmed == StripSlashes(base)
    IN IF endsWithV1(trimmed) THEN trimmed ELSE trimmed \o <<"/", "v1">>

\* models.ts fetchModels: trimmed.endsWith('/v1')
hasV1(base) == endsWithV1(StripSlashes(base))

\* models.ts fetchModels: message.includes('404'), the message being
\* "Failed to fetch models: <status> <statusText>" or that of the failed fetch
includes404(resp) == resp.status \in {"404", "failed 404"}

\* the ids of the model in sorted order; " " and " a" are "" and "a" with
\* white space around them
SortedIds == <<"a", "b">>

\* m.trim()
Trim(m) == CASE m = " " -> "" [] m = " a" -> "a" [] OTHER -> m

\* models.ts uniqueSorted
uniqueSorted(items) ==
    LET kept == {Trim(items[i]) : i \in {j \in 1..Len(items) : Trim(items[j]) # ""}}
    IN SelectSeq(SortedIds, LAMBDA m : m \in kept)

\* models.ts fetchModels: the providerType of a call that passes none
DefaultProviderType == "openai-compatible"

\* models.ts fetchModelsOnce: the request it sends
fetchModelsOnce(base, key, providerType) ==
    [kind |-> "models", url |-> joinURL(base, <<"/", "models">>),
     headers |-> Spread(authHeaders(providerType, key),
                        {Header("Content-Type", "", "application/json")})]

\* a completion request of the SDK that createSDK returned
ChatRequest ==
    [kind |-> "chat", url |-> joinURL(baseURL, <<"/", "chat", "/", "completions">>),
     headers |-> Spread(createSDK(vendor, apiKey, providerHeaders),
                        {Header("Content-Type", "", "application/json")})]

\* the provider of the invocations whose requests are not looked at
NoRequests ==
    /\ vendor = "openai-compatible"
    /\ apiKey = "k"
    /\ providerHeaders = {}
    /\ baseURL = <<"h", "/", "v1">>
    /\ requests = <<>>
    /\ responses = <<>>

(***************************************************************************)
(* Initial state: the panel has called aiChat (loading is set), the host   *)
(* has spawned the engine and is about to write the request line.          *)
(***************************************************************************)
\* the editor on a chapter just loaded: nothing typed, nothing to save, no completion asked
\* (useAutoSave.ts 9-13, Editor.tsx 63-68, 287-291)
EditorAtRest ==
    /\ value = 0
    /\ initialContent = 0
    /\ lastSavedContent = 0
    /\ status = "saved"
    /\ timerRef = <<>>
    /\ isSavingRef = FALSE
    /\ onSaveCalls = <<>>
    /\ edits = 0
    /\ saveFailed = FALSE
    /\ timerSkipped = FALSE
    /\ viewRef = 1
    /\ cursor = 0
    /\ selectionEmpty = TRUE
    /\ inlineCompletion = 0
    /\ completionTimerRef = FALSE
    /\ completionSeqRef = 0
    /\ completingRef = FALSE
    /\ aiCompleteCalls = {}

InitEngine(firstLines, configs, otherConfigs) ==
    /\ loading = TRUE
    /\ streamToken = 1
    /\ streamingContent = ""
    /\ pendingToolCalls = <<>>
    /\ toolCallStartTimes = {}
    /\ EditorAtRest
    /\ invoke = [st |-> "running", text |-> ""]
    /\ allowWrite \in BOOLEAN
    /\ hostNext = 1
    /\ effects = 0
    /\ pipe \in {<<[part |-> IF k = "eof" THEN "eof" ELSE "whole",
                    line |-> [type |-> k, results |-> <<>>]]>> : k \in firstLines}
    /\ enginePc = "start"
    /\ input = ""
    /\ \E rq \in Requests :
         /\ provider = rq.models
         /\ model = rq.model
    /\ sdkCreated = FALSE
    /\ netCalls = 0
    /\ text = ""
    /\ finishReason = ""
    /\ batch = <<>>
    /\ readers = <<>>
    /\ stdinBuffer = <<>>
    /\ settled = <<>>
    /\ history = <<>>
    /\ terminal = <<>>
    /\ exitCode = -1
    /\ \E cfg \in IF Head(pipe).line.type = "fetch_models" THEN configs ELSE otherConfigs :
         /\ vendor = cfg.vendor
         /\ apiKey = cfg.apiKey
         /\ providerHeaders = cfg.headers
         /\ baseURL = cfg.baseURL
    /\ requests = <<>>
    /\ responses = <<>>
    /\ stopInDispatch = FALSE
    /\ mode = "Continue"
    /\ chapterResolved = TRUE
    /\ loadingSessions = FALSE
    /\ loadingMessages = FALSE
    /\ savingPresets = FALSE
    /\ sessions = {1}
    /\ currentSessionId = 1
    /\ messagesInSession = <<Msg(1, "user", "null", ShortText, FALSE)>>
    /\ dismissedDraftIds = {}
    /\ sendPc = "chat"
    /\ turn = [phase |-> IF allowWrite THEN "apply" ELSE "draft", allowWrite |-> allowWrite,
               source |-> 0, token |-> 1, session |-> 1, chars |-> ShortText, msgs |-> <<>>]
    /\ messagesForAi = messagesInSession
    /\ reply = NoReply
    /\ streaming = 0
    /\ notice = ""
    /\ configMissing = FALSE
    /\ pendingDiscards = [s \in SessionIds |-> 0]
    /\ discarded = {}
    /\ store = [s \in SessionIds |-> IF s = 1 THEN messagesInSession ELSE <<>>]
    /\ nextId = 2
    /\ turns = 1
    /\ inFlight = 1

\* the provider configurations of the requests: the vendor, the key, the
\* headers and the base URL the user configured
Configs == [vendor : Vendors, apiKey : ApiKeys, headers : ProviderHeaders, baseURL : BaseURLs]

\* the configurations of the invocations whose headers are not looked at:
\* a bearer provider with a key, its base URL with or without /v1 where a
\* model listing depends on it
PlainConfigs == {cfg \in Configs : /\ cfg.vendor = "openai-compatible" /\ cfg.apiKey = "k"
                                   /\ cfg.headers = {}
                                   /\ cfg.baseURL \in {<<"h">>, <<"h", "/", "v1">>}}

Init == InitEngine(FirstLines, PlainConfigs, {cfg \in PlainConfigs : hasV1(cfg.baseURL)})

\* an engine started on a chat or a fetch_models request for any provider
InitProvider == InitEngine({"chat", "fetch_models"}, Configs, Configs)

(***************************************************************************)
(* Engine: cli.ts                                                          *)
(***************************************************************************)
ExitErrorSilent(msg) ==
    /\ terminal' = terminal
    /\ exitCode' = 1
    /\ enginePc' = "exited"

\* writeJson({type: 'error', message}); process.exit(1)
ExitError(msg) ==
    /\ terminal' = Append(terminal, [type |-> "error", content |-> msg])
    /\ exitCode' = 1
    /\ enginePc' = "exited"

\* the rejection of main() itself: nothing is written, the runtime ends the
\* process with a failure code
ExitUncaught ==
    /\ terminal' = terminal
    /\ exitCode' = 1
    /\ enginePc' = "exited"

\* writeJson({type: 'done', content}); main returns
ExitDone(content) ==
    /\ terminal' = Append(terminal, [type |-> "done", content |-> content])
    /\ exitCode' = 0
    /\ enginePc' = "exited"

\* main(), the fetch_models branch: the models or an error event, exit code 0
FetchModels ==
    /\ requests' = Append(requests, fetchModelsOnce(baseURL, apiKey, DefaultProviderType))
    /\ enginePc' = "fetch"
    /\ UNCHANGED <<terminal, exitCode, sdkCreated, netCalls>>

\* writeJson({type: 'models', models}) or writeJson({type: 'error', message}),
\* then process.exit(0)
ExitModels(resp) ==
    /\ terminal' = Append(terminal,
                          IF resp.status = "ok"
                          THEN [type |-> "models", content |-> "ids",
                                models |-> uniqueSorted(resp.body)]
                          ELSE [type |-> "error", content |-> resp.status])
    /\ exitCode' = 0
    /\ enginePc' = "exited"

\* models.ts fetchModels: the first request settles; a failure whose message
\* includes 404 on a base without /v1 is answered by the second request
fetchModelsFirst ==
    /\ enginePc = "fetch"
    /\ \E resp \in Responses :
         /\ responses' = Append(responses, resp)
         /\ IF resp.status # "ok" /\ includes404(resp) /\ ~hasV1(baseURL)
            THEN /\ requests' = Append(requests,
                                 fetchModelsOnce(ensureV1(baseURL), apiKey, DefaultProviderType))
                 /\ enginePc' = "retry"
                 /\ UNCHANGED <<terminal, exitCode>>
            ELSE /\ ExitModels(resp)
                 /\ UNCHANGED requests
    /\ UNCHANGED <<input, finishReason, panelVars, hostVars, provider, model, sdkCreated, netCalls,
                   text, batch, readers, stdinBuffer, settled, history, stopInDispatch, turnVars,
                   configVars, editorVars>>

\* models.ts fetchModels: the second request settles
fetchModelsRetry ==
    /\ enginePc = "retry"
    /\ \E resp \in Responses :
         /\ responses' = Append(responses, resp)
         /\ ExitModels(resp)
    /\ UNCHANGED <<input, finishReason, panelVars, hostVars, provider, model, sdkCreated, netCalls,
                   text, batch, readers, stdinBuffer, settled, history, stopInDispatch, turnVars,
                   configVars, requests, editorVars>>

\* main(), the compact branch: compact.ts generateCompactSummary creates the
\* SDK and issues one completion request
Compact ==
    /\ sdkCreated' = TRUE
    /\ netCalls' = netCalls + 1
    /\ requests' = Append(requests, ChatRequest)
    /\ \/ /\ terminal' = Append(terminal, [type |-> "compact_summary", content |-> "summary"])
          /\ exitCode' = 0
          /\ enginePc' = "exited"
       \/ ExitError(ErrProvider)

\* main(): const input = await readJsonFromStdin(), then the dispatch on
\* input.type up to the call of engine.agent.run
Main ==
    /\ enginePc = "start"
    /\ pipe # <<>>
    /\ LET c == Head(pipe) IN
         /\ pipe' = Tail(pipe)
         /\ input' = IF c.part = "eof" THEN "eof" ELSE c.line.type
         /\ CASE c.part = "eof" -> ExitUncaught /\ UNCHANGED <<sdkCreated, netCalls, requests>>
              [] c.line.type = "malformed" ->
                    ExitUncaught /\ UNCHANGED <<sdkCreated, netCalls, requests>>
              [] c.line.type = "fetch_models" -> FetchModels
              [] c.line.type = "compact" -> Compact
              [] c.line.type = "chat" ->
                    /\ enginePc' = "run"
                    /\ UNCHANGED <<terminal, exitCode, sdkCreated, netCalls, requests>>
              [] OTHER ->
                    ExitError(ErrUnknownRequest) /\ UNCHANGED <<sdkCreated, netCalls, requests>>
    /\ UNCHANGED <<finishReason, panelVars, invoke, allowWrite, hostNext, effects,
                   provider, model, text, batch, readers,
                   stdinBuffer, settled, history, stopInDispatch, turnVars, configVars, responses, editorVars>>

(***************************************************************************)
(* Engine: agent.ts Agent.run up to the call of generateText               *)
(***************************************************************************)
AgentRun ==
    /\ enginePc = "run"
    /\ IF ModelAllowed(provider, model)
       THEN /\ sdkCreated' = TRUE
            /\ enginePc' = "step"
            /\ UNCHANGED <<terminal, exitCode>>
       ELSE /\ ExitError(ErrModelNotAllowed)
            /\ UNCHANGED sdkCreated
    /\ UNCHANGED <<input, finishReason, panelVars, hostVars, provider, model, netCalls, text, batch, readers,
                   stdinBuffer, settled, history, stopInDispatch, turnVars, requestVars, editorVars>>

(***************************************************************************)
(* Engine: the generateText loop of the AI SDK as Agent.run configures it  *)
(* (tools with execute callbacks, maxSteps).  A step is one completion     *)
(* request; the tool calls of its response are executed together, each by  *)
(* the execute callback of tools.ts; a callback that throws rejects        *)
(* generateText.                                                           *)
(***************************************************************************)
\* the loop issues the completion request of the next step
StartGenerate ==
    /\ enginePc = "step"
    /\ netCalls' = netCalls + 1
    /\ requests' = Append(requests, ChatRequest)
    /\ enginePc' = "net"
    /\ UNCHANGED <<input, finishReason, panelVars, hostVars, provider, model, sdkCreated, text, batch, readers,
                   stdinBuffer, settled, history, terminal, exitCode, stopInDispatch, turnVars,
                   configVars, responses, editorVars>>

\* tools.ts makeExecute + cli.ts executeTools, up to the first await, for
\* every call of the response: writeJson({type: 'tool_call', ...}) and a
\* pending stdinReader.read()
Dispatch(names) ==
    /\ batch' = [i \in 1..Len(names) |->
                    [id |-> i, name |-> names[i], st |-> "calling", err |-> "", got |-> 0]]
    /\ readers' = [i \in 1..Len(names) |-> i]
    /\ settled' = <<>>
    /\ hostNext' = 1
    /\ enginePc' = "tools"

\* the completion request fails: generateText rejects, main's catch reports it
GenerateFails ==
    /\ enginePc = "net"
    /\ ExitError(ErrProvider)
    /\ UNCHANGED <<input, finishReason, panelVars, hostVars, provider, model, sdkCreated, netCalls, text, batch,
                   readers, stdinBuffer, settled, history, stopInDispatch, turnVars, requestVars, editorVars>>

\* the response has no tool call: the loop ends, Agent.run returns, main
\* writes done
GenerateFinal ==
    /\ enginePc = "net"
    /\ text' = "final"
    /\ finishReason' = "stop"
    /\ ExitDone("final")
    /\ UNCHANGED <<input, panelVars, hostVars, provider, model, sdkCreated, netCalls, batch,
                   readers, stdinBuffer, settled, history, stopInDispatch, turnVars, requestVars, editorVars>>

\* the response carries tool calls
GenerateTools ==
    /\ enginePc = "net"
    /\ \E names \in Batches :
         IF \A i \in 1..Len(names) : names[i] \in getToolsForSDK
         THEN /\ Dispatch(names)
              /\ text' = "partial"
              /\ finishReason' = "tool-calls"
              /\ UNCHANGED <<terminal, exitCode>>
         ELSE /\ ExitError(ErrNoSuchTool)
              /\ UNCHANGED <<batch, readers, settled, hostNext, text, finishReason>>
    /\ UNCHANGED <<input, panelVars, invoke, allowWrite, effects, pipe,
                   provider, model, sdkCreated, netCalls, stdinBuffer, history, stopInDispatch,
                   turnVars, requestVars, editorVars>>

StepDoneOffByOne ==
    IF netCalls <= MaxSteps
    THEN /\ enginePc' = "step"
         /\ UNCHANGED <<terminal, exitCode>>
    ELSE ExitDone(text)

\* all calls of the step have returned: the loop goes on while the step
\* count is below maxSteps, otherwise generateText returns and main writes
\* done with the text of the last step
StepDone ==
    IF netCalls < MaxSteps
    THEN /\ enginePc' = "step"
         /\ UNCHANGED <<terminal, exitCode>>
    ELSE ExitDone(text)

\* cli.ts readJsonFromStdin, resumed by a chunk: the oldest pending read()
\* gets the chunk; without a newline in the buffer it reads again (behind
\* the reads already pending), with one it parses the line and
\* executeTools / makeExecute finish for the call that was reading
DeliverChunk ==
    /\ enginePc = "tools"
    /\ readers # <<>>
    /\ pipe # <<>>
    /\ LET r == Head(readers)
           c == Head(pipe)
           e == CASE c.part = "eof" -> ErrEOF
                  [] c.line.type = "malformed" -> ErrJSON
                  [] c.line.type = "tool_result" -> makeExecute(c.line.results, batch[r].id)
                  [] OTHER -> ErrExpectedToolResult
           g == IF c.part # "eof" /\ c.line.type = "tool_result"
                THEN PickResult(c.line.results, batch[r].id).id ELSE 0
       IN
         /\ pipe' = Tail(pipe)
         /\ IF c.part = "head"
            THEN /\ stdinBuffer' = <<c.line>>
                 /\ readers' = Append(Tail(readers), r)
                 /\ UNCHANGED <<batch, settled, history, enginePc, terminal, exitCode>>
            ELSE /\ stdinBuffer' = <<>>
                 /\ readers' = Tail(readers)
                 /\ settled' = Append(settled, r)
                 /\ IF e = ""
                    THEN /\ batch' = [batch EXCEPT ![r].st = "success", ![r].got = g]
                         /\ IF Tail(readers) = <<>>
                            THEN /\ history' = toolResults(batch', settled')
                                 /\ StepDone
                            ELSE UNCHANGED <<history, enginePc, terminal, exitCode>>
                    ELSE /\ batch' = [batch EXCEPT ![r].st = "error", ![r].err = e, ![r].got = g]
                         /\ ExitError(e)
                         /\ UNCHANGED history
    /\ UNCHANGED <<input, finishReason, panelVars, invoke, allowWrite, hostNext, effects,
                   provider, model, sdkCreated, netCalls, text, stopInDispatch, turnVars, requestVars, editorVars>>

(***************************************************************************)
(* Host: the Tauri side of the tool protocol.                              *)
(***************************************************************************)
\* the chunks in which one line reaches the engine: in one piece, or cut in
\* two when it is longer than what one read of the pipe returns
Chunks(line) ==
    {<<[part |-> "whole", line |-> line]>>,
     <<[part |-> "head", line |-> line], [part |-> "tail", line |-> line]>>}

\* the outcome of one call at the host: denied by the capability gate,
\* executed (ok) or failed in execution
HostToolResult(name, allow, ok) ==
    IF CapabilityGate(name, allow) THEN ErrCapabilityDenied
    ELSE IF ok THEN "" ELSE ErrToolExecution

\* the host reads the next tool_call event, applies the capability gate,
\* executes the tool and writes the tool_result
HostExecTool ==
    /\ invoke.st = "running"
    /\ enginePc \in {"tools", "exited"}
    /\ hostNext <= Len(batch)
    /\ LET call == batch[hostNext]
           denied == CapabilityGate(call.name, allowWrite)
       IN
         \E ok \in BOOLEAN :
            /\ denied => ok
            /\ (call.name \in WriteTools /\ effects >= MaxEffects) => (denied \/ ~ok)
            /\ \E cs \in Chunks(ResultLine(call.id, HostToolResult(call.name, allowWrite, ok))) :
                  pipe' = pipe \o cs
            /\ effects' = IF ~denied /\ ok /\ call.name \in WriteTools
                          THEN effects + 1 ELSE effects
    /\ hostNext' = hostNext + 1
    /\ UNCHANGED <<panelVars, invoke, allowWrite, engineVars, editorVars, stopInDispatch, turnVars>>

\* the host answers a tool_call event with a line that is not a tool_result,
\* or closes the engine's stdin
HostFault ==
    /\ invoke.st = "running"
    /\ enginePc = "tools"
    /\ hostNext <= Len(batch)
    /\ \E c \in {[part |-> "whole", line |-> MalformedLine],
                 [part |-> "whole", line |-> OtherLine],
                 [part |-> "eof", line |-> NoLine]} :
         pipe' = Append(pipe, c)
    /\ hostNext' = hostNext + 1
    /\ UNCHANGED <<panelVars, invoke, allowWrite, effects, engineVars, editorVars,
                   stopInDispatch, turnVars>>

\* the engine process has ended: the command resolves on its response and
\* rejects on an error event or on an exit without a response
HostSettle ==
    /\ invoke.st = "running"
    /\ enginePc = "exited"
    /\ invoke' = IF terminal = <<>> THEN [st |-> "rejected", text |-> TextEngineExit]
                 ELSE IF terminal[Len(terminal)].type # "error"
                      THEN [st |-> "resolved", text |-> terminal[Len(terminal)].content]
                      ELSE [st |-> "rejected", text |-> terminal[Len(terminal)].content]
    /\ UNCHANGED <<panelVars, allowWrite, hostNext, effects, pipe, engineVars, editorVars,
                   stopInDispatch, turnVars>>

ai_cancelAlways ==
    /\ invoke' = [st |-> "rejected", text |-> TextCancelled]
    /\ enginePc' = IF enginePc \in {"exited", "none"} THEN enginePc ELSE "killed"

\* ai_cancel: a running invocation is stopped: the engine process is killed
\* and ai_chat rejects with the stop text
ai_cancel ==
    IF invoke.st = "running"
    THEN /\ invoke' = [st |-> "rejected", text |-> TextCancelled]
         /\ enginePc' = IF enginePc = "exited" THEN "exited" ELSE "killed"
    ELSE UNCHANGED <<invoke, enginePc>>

(***************************************************************************)
(* Panel: AIPanel.tsx handleStop                                           *)
(***************************************************************************)
HandleStopNoCancel ==
    /\ loading
    /\ streamToken < MaxToken
    /\ streamToken' = streamToken + 1
    /\ streamingContent' = IF streamingContent = "" THEN "stopping" ELSE streamingContent
    /\ UNCHANGED toolCallVars
    /\ UNCHANGED <<invoke, enginePc>>
    /\ stopInDispatch' = (stopInDispatch \/ (invoke.st = "running" /\ enginePc = "tools"))
    /\ UNCHANGED <<input, finishReason, loading, allowWrite, hostNext, effects, pipe,
                   provider, model, sdkCreated, netCalls, text, batch, readers,
                   stdinBuffer, settled, history, terminal, exitCode, mode, chapterResolved, loadingSessions,
                   loadingMessages, savingPresets, sessions, currentSessionId,
                   messagesInSession, dismissedDraftIds, sendPc, turn, messagesForAi, reply,
                   streaming, configMissing, pendingDiscards, discarded, store, nextId, turns, inFlight,
                   requestVars, editorVars>>
    /\ notice' = ""

HandleStop ==
    /\ loading
    /\ streamToken < MaxToken
    /\ streamToken' = streamToken + 1
    /\ streamingContent' = IF streamingContent = "" THEN "stopping" ELSE streamingContent
    /\ UNCHANGED toolCallVars
    /\ ai_cancel
    /\ stopInDispatch' = (stopInDispatch \/ (invoke.st = "running" /\ enginePc = "tools"))
    /\ UNCHANGED <<input, finishReason, loading, allowWrite, hostNext, effects, pipe,
                   provider, model, sdkCreated, netCalls, text, batch, readers,
                   stdinBuffer, settled, history, terminal, exitCode, mode, chapterResolved, loadingSessions,
                   loadingMessages, savingPresets, sessions, currentSessionId,
                   messagesInSession, dismissedDraftIds, sendPc, turn, messagesForAi, reply,
                   streaming, configMissing, pendingDiscards, discarded, store, nextId, turns, inFlight,
                   requestVars, editorVars>>
    /\ notice' = ""

(***************************************************************************)
(* Panel: AIPanel.tsx sendMessage.  The call runs from its guard to its    *)
(* finally block; every await is a step of its own.                        *)
(***************************************************************************)
\* finally { setLoading(false); setStreamingContent(""); ... }
FinallyStaysLoading ==
    /\ loading' = loading
    /\ streamingContent' = ""
    /\ pendingToolCalls' = <<>>
    /\ UNCHANGED toolCallStartTimes
    /\ sendPc' = "idle"
    /\ turn' = NoTurn
    /\ messagesForAi' = <<>>
    /\ reply' = NoReply
    /\ inFlight' = inFlight - 1

\* finally { setLoading(false); setStreamingContent(""); setPendingToolCalls([]) }
Finally ==
    /\ loading' = FALSE
    /\ streamingContent' = ""
    /\ pendingToolCalls' = <<>>
    /\ UNCHANGED toolCallStartTimes
    /\ sendPc' = "idle"
    /\ turn' = NoTurn
    /\ messagesForAi' = <<>>
    /\ reply' = NoReply
    /\ inFlight' = inFlight - 1

(***************************************************************************)
(* Panel: the listeners of the tool-call events of the host.  The host     *)
(* emits ai:tool_call_start before it executes a call of the running       *)
(* invocation and ai:tool_call_end when the call has returned; the id is    *)
(* the one the model gave the call, which the engine passes on.            *)
(***************************************************************************)
\* the host starts a call: an invocation runs and no call of that id is
\* outstanding
HostStartsCall(id) ==
    /\ sendPc = "chat"
    /\ invoke.st = "running"
    /\ Len(pendingToolCalls) < MaxCalls
    /\ id \notin toolCallStartTimes

\* the host ends a call it has started
HostEndsCall(id) ==
    /\ sendPc = "chat"
    /\ invoke.st = "running"
    /\ id \in toolCallStartTimes

\* what the listeners leave alone
listenerRest == <<loading, streamToken, streamingContent, hostVars, engineVars, editorVars, stopInDispatch,
                  mode, chapterResolved, loadingSessions, loadingMessages, savingPresets,
                  sessions, currentSessionId, messagesInSession, dismissedDraftIds, sendPc,
                  turn, messagesForAi, reply, streaming, configMissing, pendingDiscards, discarded, store,
                  nextId, turns, inFlight>>

\* listen("ai:tool_call_start", ...)
tool_call_start ==
    \E id \in CallIds :
       /\ HostStartsCall(id)
       /\ toolCallStartTimes' = toolCallStartTimes \cup {id}
       /\ pendingToolCalls' = Append(pendingToolCalls,
                                     [id |-> id, status |-> "calling", duration |-> "undefined"])
       /\ notice' = ""
       /\ UNCHANGED listenerRest

\* listen("ai:tool_call_end", ...)
tool_call_end ==
    \E id \in CallIds, error \in BOOLEAN :
       /\ HostEndsCall(id)
       /\ toolCallStartTimes' = toolCallStartTimes \ {id}
       /\ pendingToolCalls' =
              [i \in 1..Len(pendingToolCalls) |->
                  LET call == pendingToolCalls[i] IN
                  IF call.id # id THEN call
                  ELSE [call EXCEPT !.status = IF error THEN "error" ELSE "success",
                                    !.duration = IF id \in toolCallStartTimes
                                                  THEN "ms" ELSE "undefined"]]
       /\ notice' = ""
       /\ UNCHANGED listenerRest

\* catch (error) { ... } followed by the finally block
Catch(error) ==
    LET t == formatError(error) IN
      /\ IF IsStopText(t)
         THEN /\ notice' = "info: stopped"
              /\ UNCHANGED configMissing
         ELSE /\ notice' = "error: send failed"
              /\ configMissing' = IF IsConfigText(t) THEN TRUE ELSE configMissing
      /\ Finally

\* lib/ai.ts aiChat: without an active provider configuration it throws,
\* otherwise it invokes ai_chat with allowWrite: params.allowWrite ?? false
aiChat(working) ==
    /\ messagesForAi' = working
    /\ sendPc' = "chat"
    /\ \/ /\ invoke' = [st |-> "running", text |-> ""]
          /\ allowWrite' = turn.allowWrite
          /\ enginePc' = "start"
          /\ effects' = 0
       \/ /\ invoke' = [st |-> "rejected", text |-> TextConfigMissing]
          /\ UNCHANGED <<allowWrite, enginePc, effects>>

\* sendMessage(content, options) from its guard to the first await.
\* dismissed is dismissedDraftIds as the calling handler has left it.
sendMessage(content, continuePhaseOpt, sourceOpt, dismissed) ==
    IF ~currentSession \/ busy
    THEN /\ dismissedDraftIds' = dismissed
         /\ UNCHANGED <<panelVars, hostVars, engineVars, editorVars, stopInDispatch, mode, chapterResolved,
                        loadingSessions, loadingMessages, savingPresets, sessions,
                        currentSessionId, messagesInSession, sendPc, turn, messagesForAi,
                        reply, streaming, configMissing, pendingDiscards, discarded, store,
                        nextId, turns, inFlight>>
         /\ notice' = ""
    ELSE
      LET continuePhase == IF continuePhaseOpt # "" THEN continuePhaseOpt
                           ELSE inferContinuePhase(content)
          aw == AllowWriteOf(continuePhase)
          sourceDraftMessageId ==
              IF aw THEN (IF sourceOpt # 0 THEN sourceOpt ELSE actionableDraftId) ELSE 0
      IN
        IF aw /\ ~chapterResolved
        THEN /\ notice' = "error: no chapter"
             /\ dismissedDraftIds' = dismissed
             /\ UNCHANGED <<panelVars, hostVars, engineVars, editorVars, stopInDispatch, mode,
                            chapterResolved, loadingSessions, loadingMessages, savingPresets,
                            sessions, currentSessionId, messagesInSession, sendPc, turn,
                            messagesForAi, reply, streaming, configMissing, pendingDiscards, discarded,
                            store, nextId, turns, inFlight>>
        ELSE /\ dismissedDraftIds' =
                   IF mode = "Continue" /\ aw /\ sourceDraftMessageId # 0
                   THEN dismissed \cup {sourceDraftMessageId} ELSE dismissed
             /\ configMissing' = FALSE
             /\ toolCallStartTimes' = {}
             /\ pendingToolCalls' = <<>>
             /\ streamingContent' = ""
             /\ streamToken' = streamToken + 1
             /\ turn' = [phase |-> continuePhase, allowWrite |-> aw,
                         source |-> sourceDraftMessageId, token |-> streamToken + 1,
                         session |-> currentSessionId, chars |-> content.chars,
                         msgs |-> messagesInSession]
             /\ loading' = TRUE
             /\ sendPc' = "addUser"
             /\ turns' = turns + 1
             /\ inFlight' = inFlight + 1
             /\ notice' = ""
             /\ UNCHANGED <<hostVars, engineVars, editorVars, stopInDispatch, mode, chapterResolved,
                            loadingSessions, loadingMessages, savingPresets, sessions,
                            currentSessionId, messagesInSession, messagesForAi, reply,
                            streaming, pendingDiscards, discarded, store, nextId>>

\* the send button / Enter of ChatInput: handleSend
HandleSend ==
    /\ turns < MaxTurns
    /\ \E content \in UserTexts : sendMessage(content, "", 0, dismissedDraftIds)

\* ChatMessage.tsx showDraftActions: the buttons of the actionable draft
showDraftActions == mode = "Continue" /\ actionableDraftId # 0 /\ ~busy

\* the text handleConfirmDraft sends (it contains the explicit confirmation)
ConfirmText == [core |-> "queren zhuijia", tail |-> "!", chars |-> ConfirmChars]
\* the text handleRegenerateDraft sends
RegenerateText == [core |-> "other", tail |-> "!", chars |-> RegenerateChars]

HandleConfirmDraft ==
    /\ turns < MaxTurns
    /\ showDraftActions
    /\ sendMessage(ConfirmText, "apply", actionableDraftId,
                   dismissedDraftIds \cup {actionableDraftId})

HandleRegenerateDraft ==
    /\ turns < MaxTurns
    /\ showDraftActions
    /\ sendMessage(RegenerateText, "draft", 0, dismissedDraftIds \cup {actionableDraftId})

\* the engine and protocol state a step of the panel never touches
engineRest == <<requestVars, input, provider, model, sdkCreated, netCalls, text, finishReason, batch,
                readers, stdinBuffer, settled, history, terminal, exitCode, hostNext, pipe, stopInDispatch>>
\* the panel state a step of sendMessage after its start never touches
panelRest == <<mode, chapterResolved, loadingSessions, loadingMessages, savingPresets,
               sessions, currentSessionId, dismissedDraftIds, pendingDiscards, discarded, turns,
               streamToken>>

addSessionMessagePrepend(session, m) ==
    /\ store' = [store EXCEPT ![session] = <<m>> \o @]
    /\ nextId' = nextId + 1

\* the host session store: add_session_message
addSessionMessage(session, m) ==
    /\ store' = [store EXCEPT ![session] = Append(@, m)]
    /\ nextId' = nextId + 1

compact_sessionKeepAll(msgs, keepRecent) ==
    IF Len(msgs) > keepRecent
    THEN <<Msg(nextId, "system", "null", ReplyText, FALSE)>> \o msgs
    ELSE msgs

\* the host session store: compact_session(keepRecent): the messages before
\* the last keepRecent become one summary message
compact_session(msgs, keepRecent) ==
    IF Len(msgs) > keepRecent
    THEN <<Msg(nextId, "system", "null", ReplyText, FALSE)>> \o LastN(msgs, keepRecent)
    ELSE msgs

\* await addSessionMessage({role: "User"}) returns: the message is shown, the
\* working messages are estimated and compaction or the model call follows
AddUserReturns ==
    /\ sendPc = "addUser"
    /\ \/ /\ Catch(TextStore)
          /\ UNCHANGED <<messagesInSession, store, nextId, invoke, allowWrite,
                         enginePc, effects>>
       \/ LET uiUser == Msg(nextId, "user", "null", turn.chars, FALSE)
              workingMessages == Append(turn.msgs, uiUser)
          IN /\ addSessionMessage(turn.session, uiUser)
             /\ messagesInSession' = Append(messagesInSession, uiUser)
             /\ IF OverThreshold(workingMessages)
                THEN /\ sendPc' = "compact"
                     /\ messagesForAi' = workingMessages
                     /\ UNCHANGED <<invoke, allowWrite, enginePc, effects>>
                ELSE aiChat(workingMessages)
             /\ notice' = ""
             /\ UNCHANGED <<loading, streamingContent, toolCallVars, configMissing, inFlight, turn, reply>>
    /\ UNCHANGED <<engineRest, editorVars, panelRest, streaming>>

CompactReturnsLate ==
    /\ sendPc = "chat"
    /\ invoke.st = "running"
    /\ Len(store[turn.session]) > COMPACT_keepRecent
    /\ store[turn.session][1].role # "system"
    /\ store' = [store EXCEPT ![turn.session] = <<Msg(nextId, "system", "null", ReplyText, FALSE)>>
                                                  \o LastN(@, COMPACT_keepRecent)]
    /\ nextId' = nextId + 1
    /\ messagesInSession' = store'[turn.session]
    /\ notice' = ""
    /\ UNCHANGED <<engineRest, editorVars, panelRest, turn, reply, streaming, loading, streamingContent, toolCallVars,
                   configMissing, inFlight, sendPc, messagesForAi, invoke, allowWrite, enginePc,
                   effects>>

\* await compactSession / getSessionMessages return or fail; the model call
\* follows in both cases
CompactReturns ==
    /\ sendPc = "compact"
    /\ \/ LET compacted == compact_session(store[turn.session], COMPACT_keepRecent)
          IN /\ store' = [store EXCEPT ![turn.session] = compacted]
             /\ nextId' = IF compacted = store[turn.session] THEN nextId ELSE nextId + 1
             /\ messagesInSession' = compacted
             /\ aiChat(IF OverThreshold(compacted) THEN LastN(compacted, SafeCount)
                       ELSE compacted)
             /\ notice' = ""
       \/ /\ notice' = "error: compact failed"
          /\ aiChat(LastN(messagesForAi, SafeCount))
          /\ UNCHANGED <<store, nextId, messagesInSession>>
    /\ UNCHANGED <<engineRest, editorVars, panelRest, turn, reply, streaming, loading, streamingContent, toolCallVars,
                   configMissing, inFlight>>

\* the ai_chat invocation runs to its end at the host: it resolves with the
\* reply and the trace, or rejects with the failure.  An append can have
\* succeeded only in an invocation with allowWrite; it can have succeeded
\* (and been shown by the ai:tool_call_end event) in a step before the one
\* that failed.
AiChatSettles ==
    /\ sendPc = "chat"
    /\ invoke.st = "running"
    /\ enginePc' = "exited"
    /\ \/ \E isDraft, appended \in BOOLEAN :
            /\ appended => allowWrite
            /\ invoke' = [st |-> "resolved", text |-> "final"]
            /\ reply' = [isDraft |-> isDraft, appended |-> appended, id |-> 0,
                         chars |-> IF isDraft THEN PreviewText ELSE ReplyText,
                         grant |-> allowWrite]
            /\ effects' = IF appended THEN 1 ELSE 0
       \/ \E t \in FailureTexts, appended \in BOOLEAN :
            /\ appended => allowWrite
            /\ invoke' = [st |-> "rejected", text |-> t]
            /\ effects' = IF appended THEN 1 ELSE 0
            /\ UNCHANGED reply
    /\ notice' = ""
    /\ UNCHANGED <<engineRest, editorVars, panelRest, turn, allowWrite, loading, streamingContent, toolCallVars,
                   messagesInSession, sendPc, messagesForAi, streaming, configMissing,
                   store, nextId, inFlight>>

\* the invocation is over: the host holds no ai_chat command
HostIdle ==
    /\ invoke' = [st |-> "none", text |-> ""]
    /\ allowWrite' = FALSE
    /\ effects' = 0
    /\ enginePc' = "none"

\* metadata.applied of the assistant message sendMessage stores
AppliedOf(isDraft, aw) == IF isDraft /\ ~aw THEN "false" ELSE IF aw THEN "true" ELSE "null"

\* await aiChat returns: the simulated streaming starts and the assistant
\* message is sent to the store
ChatResolves ==
    /\ sendPc = "chat"
    /\ invoke.st = "resolved"
    /\ streaming' = turn.token
    /\ sendPc' = "addAssistant"
    /\ HostIdle
    /\ notice' = ""
    /\ UNCHANGED <<engineRest, editorVars, panelRest, turn, loading, streamingContent, toolCallVars,
                   messagesInSession, messagesForAi, reply, configMissing, store,
                   nextId, inFlight>>

\* await aiChat throws
ChatRejects ==
    /\ sendPc = "chat"
    /\ invoke.st = "rejected"
    /\ Catch(invoke.text)
    /\ HostIdle
    /\ UNCHANGED <<engineRest, editorVars, panelRest, messagesInSession, streaming, store, nextId>>

\* one round of the simulated streaming loop
StreamChunk ==
    /\ streaming # 0
    /\ IF streamToken # streaming
       THEN /\ streaming' = 0
            /\ UNCHANGED <<streamingContent, toolCallVars>>
       ELSE /\ streamingContent' = "text"
            /\ UNCHANGED toolCallVars
            /\ streaming' \in {0, streaming}
    /\ notice' = ""
    /\ UNCHANGED <<engineRest, editorVars, panelRest, turn, invoke, allowWrite, effects, enginePc, loading,
                   messagesInSession, sendPc, messagesForAi, reply, configMissing, store,
                   nextId, inFlight>>

\* await addSessionMessage({role: "Assistant", metadata}) returns
AddAssistantReturns ==
    /\ sendPc = "addAssistant"
    /\ \/ /\ Catch(TextStore)
          /\ UNCHANGED <<store, nextId>>
       \/ /\ addSessionMessage(turn.session,
                               Msg(nextId, "assistant", AppliedOf(reply.isDraft, turn.allowWrite),
                                   reply.chars, reply.grant))
          /\ reply' = [reply EXCEPT !.id = nextId]
          /\ sendPc' = "stream"
          /\ notice' = ""
          /\ UNCHANGED <<loading, streamingContent, toolCallVars, configMissing, inFlight, turn,
                         messagesForAi>>
    /\ UNCHANGED <<engineRest, editorVars, panelRest, invoke, allowWrite, effects, enginePc,
                   messagesInSession, streaming>>

\* await streamPromise returns: the assistant message is shown; after a
\* successful append of an apply turn the source draft is marked applied
AfterStream ==
    /\ sendPc = "stream"
    /\ streaming = 0
    /\ messagesInSession' =
           Append(messagesInSession,
                  Msg(reply.id, "assistant", AppliedOf(reply.isDraft, turn.allowWrite),
                      reply.chars, reply.grant))
    /\ streamingContent' = ""
    /\ pendingToolCalls' = <<>>
    /\ UNCHANGED toolCallStartTimes
    /\ sendPc' = IF turn.allowWrite /\ turn.source # 0 /\ reply.appended
                 THEN "updateMeta" ELSE "listSessions"
    /\ notice' = ""
    /\ UNCHANGED <<engineRest, editorVars, panelRest, turn, invoke, allowWrite, effects, enginePc, loading,
                   messagesForAi, reply, streaming, configMissing, store, nextId, inFlight>>

\* m with metadata.applied = true when it is the message `id`
MarkApplied(msgs, id) ==
    [i \in 1..Len(msgs) |-> IF msgs[i].id = id THEN [msgs[i] EXCEPT !.applied = "true"]
                            ELSE msgs[i]]

\* await updateMessageMetadata({applied: true}) returns, or fails and is ignored
UpdateMetaReturns ==
    /\ sendPc = "updateMeta"
    /\ \/ /\ store' = [store EXCEPT ![turn.session] = MarkApplied(@, turn.source)]
          /\ messagesInSession' = MarkApplied(messagesInSession, turn.source)
       \/ UNCHANGED <<store, messagesInSession>>
    /\ sendPc' = "listSessions"
    /\ notice' = ""
    /\ UNCHANGED <<engineRest, editorVars, panelRest, turn, invoke, allowWrite, effects, enginePc, loading,
                   streamingContent, toolCallVars, messagesForAi, reply, streaming, configMissing, nextId,
                   inFlight>>

\* await listSessions returns or throws: the end of sendMessage
ListSessionsReturns ==
    /\ sendPc = "listSessions"
    /\ \/ /\ Finally
          /\ notice' = ""
          /\ UNCHANGED configMissing
       \/ Catch(TextStore)
    /\ UNCHANGED <<engineRest, editorVars, panelRest, invoke, allowWrite, effects, enginePc,
                   messagesInSession, streaming, store, nextId>>

(***************************************************************************)
(* Panel: AIPanel.tsx handleDiscardDraft                                   *)
(***************************************************************************)
HandleDiscardDraftNoDismiss ==
    /\ turns < MaxTurns
    /\ showDraftActions
    /\ turns' = turns + 1
    /\ pendingDiscards' = IF currentSession
                          THEN [pendingDiscards EXCEPT ![currentSessionId] = @ + 1]
                          ELSE pendingDiscards
    /\ discarded' = discarded \cup {actionableDraftId}
    /\ UNCHANGED <<panelVars, hostVars, engineVars, editorVars, stopInDispatch, mode, chapterResolved,
                   loadingSessions, loadingMessages, savingPresets, sessions,
                   currentSessionId, messagesInSession, sendPc, turn, messagesForAi, reply,
                   streaming, configMissing, store, nextId, inFlight, dismissedDraftIds>>
    /\ notice' = ""

\* handleDiscardDraft up to its await: the draft is dismissed and the System
\* note is sent to the store
HandleDiscardDraft ==
    /\ turns < MaxTurns
    /\ showDraftActions
    /\ turns' = turns + 1
    /\ dismissedDraftIds' = dismissedDraftIds \cup {actionableDraftId}
    /\ pendingDiscards' = IF currentSession
                          THEN [pendingDiscards EXCEPT ![currentSessionId] = @ + 1]
                          ELSE pendingDiscards
    /\ discarded' = discarded \cup {actionableDraftId}
    /\ UNCHANGED <<panelVars, hostVars, engineVars, editorVars, stopInDispatch, mode, chapterResolved,
                   loadingSessions, loadingMessages, savingPresets, sessions,
                   currentSessionId, messagesInSession, sendPc, turn, messagesForAi, reply,
                   streaming, configMissing, store, nextId, inFlight>>
    /\ notice' = ""

\* its await addSessionMessage({role: "System"}) returns or throws
DiscardReturns ==
    \E session \in SessionIds :
        /\ pendingDiscards[session] > 0
        /\ pendingDiscards' = [pendingDiscards EXCEPT ![session] = @ - 1]
        /\ UNCHANGED discarded
        /\ \/ LET sys == Msg(nextId, "system", "null", ShortText, FALSE)
              IN /\ addSessionMessage(session, sys)
                 /\ messagesInSession' = Append(messagesInSession, sys)
                 /\ notice' = ""
           \/ /\ notice' = "info: discarded"
              /\ UNCHANGED <<store, nextId, messagesInSession>>
        /\ UNCHANGED <<panelVars, hostVars, engineVars, editorVars, stopInDispatch, mode, chapterResolved,
                       loadingSessions, loadingMessages, savingPresets, sessions,
                       currentSessionId, dismissedDraftIds, sendPc, turn, messagesForAi,
                       reply, streaming, configMissing, turns, inFlight>>

(***************************************************************************)
(* Panel: AIPanel.tsx sessions and presets                                 *)
(***************************************************************************)
\* useEffect on currentSessionId: loadMessages starts
loadMessages ==
    /\ loadingMessages' = TRUE
    /\ messagesInSession' = <<>>
    /\ dismissedDraftIds' = {}

\* the new-session button (disabled while busy): handleCreateSession
HandleCreateSession ==
    /\ ~busy
    /\ ~loadingSessions
    /\ sessions # SessionIds
    /\ loadingSessions' = TRUE
    /\ UNCHANGED <<panelVars, hostVars, engineVars, editorVars, stopInDispatch, mode, chapterResolved,
                   loadingMessages, savingPresets, sessions, currentSessionId,
                   messagesInSession, dismissedDraftIds, sendPc, turn, messagesForAi, reply,
                   streaming, configMissing, pendingDiscards, discarded, store, nextId, turns,
                   inFlight>>
    /\ notice' = ""

\* createSession resolves (the session is selected and its messages load) or rejects
CreateSessionReturns ==
    /\ loadingSessions
    /\ loadingSessions' = FALSE
    /\ \/ /\ sessions' = sessions \cup {Cardinality(sessions) + 1}
          /\ currentSessionId' = Cardinality(sessions) + 1
          /\ loadMessages
          /\ notice' = ""
       \/ /\ notice' = "error: create session"
          /\ UNCHANGED <<sessions, currentSessionId, loadingMessages, messagesInSession,
                         dismissedDraftIds>>
    /\ UNCHANGED <<panelVars, hostVars, engineVars, editorVars, stopInDispatch, mode, chapterResolved,
                   savingPresets, sendPc, turn, messagesForAi, reply, streaming,
                   configMissing, pendingDiscards, discarded, store, nextId, turns, inFlight>>

\* the session list (disabled while busy): handleSelectSession
HandleSelectSession ==
    /\ ~busy
    /\ \E id \in sessions :
          /\ id # currentSessionId
          /\ currentSessionId' = id
    /\ loadMessages
    /\ UNCHANGED <<panelVars, hostVars, engineVars, editorVars, stopInDispatch, mode, chapterResolved,
                   loadingSessions, savingPresets, sessions, sendPc, turn, messagesForAi,
                   reply, streaming, configMissing, pendingDiscards, discarded, store, nextId,
                   turns, inFlight>>
    /\ notice' = ""

\* loadMessages: getSessionMessages resolves or rejects
LoadMessagesReturns ==
    /\ loadingMessages
    /\ loadingMessages' = FALSE
    /\ \/ /\ messagesInSession' = store[currentSessionId]
          /\ notice' = ""
       \/ /\ messagesInSession' = <<>>
          /\ notice' = "error: load messages"
    /\ UNCHANGED <<panelVars, hostVars, engineVars, editorVars, stopInDispatch, mode, chapterResolved,
                   loadingSessions, savingPresets, sessions, currentSessionId,
                   dismissedDraftIds, sendPc, turn, messagesForAi, reply, streaming,
                   configMissing, pendingDiscards, discarded, store, nextId, turns, inFlight>>

\* the preset selector (disabled while busy): handleSelectPreset / handleSavePresets
HandleSelectPreset ==
    /\ ~busy
    /\ savingPresets' = TRUE
    /\ UNCHANGED <<panelVars, hostVars, engineVars, editorVars, stopInDispatch, mode, chapterResolved,
                   loadingSessions, loadingMessages, sessions, currentSessionId,
                   messagesInSession, dismissedDraftIds, sendPc, turn, messagesForAi, reply,
                   streaming, configMissing, pendingDiscards, discarded, store, nextId, turns,
                   inFlight>>
    /\ notice' = ""

\* saveWritingPresets resolves or rejects
SavePresetsReturns ==
    /\ savingPresets
    /\ savingPresets' = FALSE
    /\ notice' \in {"", "error: save presets"}
    /\ UNCHANGED <<panelVars, hostVars, engineVars, editorVars, stopInDispatch, mode, chapterResolved,
                   loadingSessions, loadingMessages, sessions, currentSessionId,
                   messagesInSession, dismissedDraftIds, sendPc, turn, messagesForAi, reply,
                   streaming, configMissing, pendingDiscards, discarded, store, nextId, turns, inFlight>>

\* the messages of a session that was used before: user and assistant
\* messages in turn, none of them a draft
PriorHistory ==
    [i \in 1..PriorLen |->
        Msg(i, IF i % 2 = 1 THEN "user" ELSE "assistant", "null", ShortText, FALSE)]

(***************************************************************************)
(* The panel over several turns: the sessions are loaded, one session is   *)
(* selected (a new one, or one with earlier messages, which are loaded),   *)
(* nothing is running.                                                     *)
(***************************************************************************)
InitPanel ==
    /\ loading = FALSE
    /\ streamToken = 0
    /\ streamingContent = ""
    /\ pendingToolCalls = <<>>
    /\ toolCallStartTimes = {}
    /\ EditorAtRest
    /\ invoke = [st |-> "none", text |-> ""]
    /\ allowWrite = FALSE
    /\ hostNext = 1
    /\ effects = 0
    /\ pipe = <<>>
    /\ enginePc = "none"
    /\ input = ""
    /\ provider = {}
    /\ model = "m1"
    /\ sdkCreated = FALSE
    /\ netCalls = 0
    /\ text = ""
    /\ finishReason = ""
    /\ batch = <<>>
    /\ readers = <<>>
    /\ stdinBuffer = <<>>
    /\ settled = <<>>
    /\ history = <<>>
    /\ terminal = <<>>
    /\ exitCode = -1
    /\ NoRequests
    /\ stopInDispatch = FALSE
    /\ mode \in {"Continue", "Discussion"}
    /\ chapterResolved \in BOOLEAN
    /\ loadingSessions = FALSE
    /\ loadingMessages = FALSE
    /\ savingPresets = FALSE
    /\ sessions = {1}
    /\ currentSessionId = 1
    /\ messagesInSession \in {<<>>, PriorHistory}
    /\ dismissedDraftIds = {}
    /\ sendPc = "idle"
    /\ turn = NoTurn
    /\ messagesForAi = <<>>
    /\ reply = NoReply
    /\ streaming = 0
    /\ notice = ""
    /\ configMissing = FALSE
    /\ pendingDiscards = [s \in SessionIds |-> 0]
    /\ discarded = {}
    /\ store = [s \in SessionIds |-> IF s = 1 THEN messagesInSession ELSE <<>>]
    /\ nextId = Len(messagesInSession) + 1
    /\ turns = 0
    /\ inFlight = 0

NextPanel ==
    \/ HandleSend
    \/ HandleConfirmDraft
    \/ HandleRegenerateDraft
    \/ HandleDiscardDraft
    \/ HandleStop
    \/ AddUserReturns
    \/ CompactReturns
    \/ AiChatSettles
    \/ ChatResolves
    \/ ChatRejects
    \/ StreamChunk
    \/ AddAssistantReturns
    \/ AfterStream
    \/ UpdateMetaReturns
    \/ ListSessionsReturns
    \/ DiscardReturns
    \/ HandleCreateSession
    \/ CreateSessionReturns
    \/ HandleSelectSession
    \/ LoadMessagesReturns
    \/ HandleSelectPreset
    \/ SavePresetsReturns

SpecPanel == InitPanel /\ [][NextPanel]_vars

\* the turns of the panel (send, confirm, stop) with the tool-call events
\* of the host
NextTurn ==
    \/ tool_call_start
    \/ tool_call_end
    \/ HandleSend
    \/ HandleConfirmDraft
    \/ HandleStop
    \/ AddUserReturns
    \/ CompactReturns
    \/ AiChatSettles
    \/ ChatResolves
    \/ ChatRejects
    \/ StreamChunk
    \/ AddAssistantReturns
    \/ AfterStream
    \/ UpdateMetaReturns
    \/ ListSessionsReturns

SpecTurn == InitPanel /\ [][NextTurn]_vars

\* the calls a turn awaits settle: the store and the host answer, and the
\* loop that shows a reply piece by piece comes to the end of the reply
AwaitedCallsSettle ==
    /\ WF_vars(AddUserReturns)
    /\ WF_vars(CompactReturns)
    /\ WF_vars(AiChatSettles)
    /\ WF_vars(ChatResolves)
    /\ WF_vars(ChatRejects)
    /\ WF_vars(StreamChunk /\ streaming' = 0)
    /\ WF_vars(AddAssistantReturns)
    /\ WF_vars(AfterStream)
    /\ WF_vars(UpdateMetaReturns)
    /\ WF_vars(ListSessionsReturns)

SpecTurnFair == SpecTurn /\ AwaitedCallsSettle

Next ==
    \/ Main
    \/ AgentRun
    \/ StartGenerate
    \/ GenerateFails
    \/ GenerateFinal
    \/ GenerateTools
    \/ fetchModelsFirst
    \/ fetchModelsRetry
    \/ DeliverChunk
    \/ HostExecTool
    \/ HostFault
    \/ HostSettle
    \/ HandleStop

Spec == Init /\ [][Next]_vars

NextProvider ==
    \/ Main
    \/ AgentRun
    \/ StartGenerate
    \/ GenerateFails
    \/ GenerateFinal
    \/ fetchModelsFirst
    \/ fetchModelsRetry

SpecProvider == InitProvider /\ [][NextProvider]_vars

TypeOK ==
    /\ netCalls \in 0..MaxSteps
    /\ exitCode \in {-1, 0, 1}
    /\ Len(batch) <= MaxBatch


(***************************************************************************)
(* Properties of one invocation (specification Spec).                      *)
(***************************************************************************)
\* the last event the engine wrote
LastEvent ==
    IF terminal = <<>> THEN [type |-> "none", content |-> ""] ELSE terminal[Len(terminal)]

\* the errors a tool_result can carry
ToolErrors == {ErrCapabilityDenied, ErrToolExecution}

\* the errors of reading the host stream
ProtocolErrors == {ErrJSON, ErrEOF, ErrExpectedToolResult}

\* C1: every tool call that has got its result failed with CapabilityDenied
\* exactly when it names a write tool and the invocation is read-only.
C1_CapabilityDeniedIff ==
    \A i \in 1..Len(batch) :
        (batch[i].st = "success" \/ (batch[i].st = "error" /\ batch[i].err \in ToolErrors))
            => ((batch[i].st = "error" /\ batch[i].err = ErrCapabilityDenied)
                    <=> (batch[i].name \in WriteTools /\ ~allowWrite))

\* C3: a chat request for a model outside a non-empty allow-list never
\* creates the provider SDK and never issues a completion request, and it
\* ends with the error event "Model not allowed".
C3_ModelNotAllowedFailsFast ==
    (input = "chat" /\ provider # {} /\ model \notin provider) =>
        /\ ~sdkCreated
        /\ netCalls = 0
        /\ enginePc \in {"run", "exited", "killed"}
        /\ enginePc = "exited" =>
              /\ terminal = <<[type |-> "error", content |-> ErrModelNotAllowed]>>
              /\ exitCode = 1

C3_Witness ==
    /\ provider # {} /\ model \notin provider
    /\ enginePc = "exited"
    /\ LastEvent = [type |-> "error", content |-> ErrModelNotAllowed]

\* C5: an invocation never issues more than maxSteps completion requests,
\* and once the calls of the maxSteps-th step have returned it has ended.
C5_AtMostMaxSteps ==
    /\ netCalls <= MaxSteps
    /\ (netCalls = MaxSteps /\ enginePc \notin {"net", "tools"})
          => enginePc \in {"exited", "killed"}

C5_Witness ==
    /\ netCalls = MaxSteps
    /\ enginePc = "exited"
    /\ finishReason = "tool-calls"
    /\ exitCode = 0

\* C6: an invocation that ends because the maxSteps-th response still asked
\* for tools does not report an ordinary done.
C6_StepLimitSignalled ==
    (/\ enginePc = "exited"
     /\ netCalls = MaxSteps
     /\ finishReason = "tool-calls"
     /\ \A i \in 1..Len(batch) : batch[i].st = "success")
        => LastEvent.type # "done"

\* C8: once a stop has been pressed while a tool call was being dispatched,
\* no completion request is issued, no tool call is dispatched or executed,
\* and the file effects of the completed calls stay as they are.
C8_NoStepAfterCancel ==
    [][stopInDispatch =>
          /\ netCalls' = netCalls
          /\ batch' = batch
          /\ hostNext' = hostNext
          /\ effects' = effects]_vars

C8_Witness ==
    /\ stopInDispatch
    /\ effects > 0
    /\ \E i, j \in 1..Len(batch) :
          /\ batch[i].st = "success" /\ batch[i].name \in WriteTools
          /\ batch[j].st = "calling"

\* C9: a tool call that got an error result does not end the invocation.
C9_ToolErrorNeverAborts ==
    (\E i \in 1..Len(batch) : batch[i].st = "error" /\ batch[i].err \in ToolErrors)
        => enginePc # "exited"

\* C10: an engine that has read a malformed line, a message of an unexpected
\* kind or the end of the stream has written exactly one event, an error,
\* and has exited with a non-zero code.
C10_ProtocolErrorReported ==
    (/\ enginePc = "exited"
     /\ \/ input \in {"malformed", "eof", "other"}
        \/ \E i \in 1..Len(batch) : batch[i].st = "error" /\ batch[i].err \in ProtocolErrors)
        => /\ Len(terminal) = 1
           /\ terminal[1].type = "error"
           /\ exitCode > 0

\* C11: an engine that has exited has exit code 0 when its last event is
\* done, models or compact_summary, and a non-zero exit code whenever it has
\* written an error event.
C11_ExitCodeMatchesEvent ==
    enginePc = "exited" =>
        /\ LastEvent.type \in {"done", "models", "compact_summary"} => exitCode = 0
        /\ (\E i \in 1..Len(terminal) : terminal[i].type = "error") => exitCode # 0

\* C12: every tool call sent to the host names a tool of the registry, and
\* the step in which a response asks for a name outside it ends the
\* invocation with the unknown-tool error without sending any tool_call and
\* without anything being written to or read from the host.
C12_UnknownToolNotDispatched ==
    /\ [](\A i \in 1..Len(batch) : batch[i].name \in Range(tools))
    /\ [][(terminal' # terminal /\ terminal'[Len(terminal')].content = ErrNoSuchTool) =>
             /\ terminal'[Len(terminal')].type = "error"
             /\ batch' = batch
             /\ readers' = readers
             /\ hostNext' = hostNext
             /\ pipe' = pipe
             /\ effects' = effects]_vars

C12_Witness ==
    /\ enginePc = "exited"
    /\ LastEvent = [type |-> "error", content |-> ErrNoSuchTool]
    /\ netCalls = 2
    /\ Len(batch) = MaxBatch
    /\ \A i \in 1..Len(batch) : batch[i].st = "success"

\* C13: a tool call that has completed (with a result or with a tool error)
\* took the result entry that carries its own correlation id.
C13_ResultCorrelated ==
    \A i \in 1..Len(batch) :
        (batch[i].st = "success" \/ (batch[i].st = "error" /\ batch[i].err \in ToolErrors))
            => batch[i].got = batch[i].id

\* C14: while the engine waits for tool results, at most one tool call is
\* outstanding and at most one read of the host stream is pending.
C14_OneOutstandingCall ==
    enginePc = "tools" =>
        /\ Len(readers) <= 1
        /\ Cardinality({i \in 1..Len(batch) : batch[i].st = "calling"}) <= 1

StoredMessages == UNION {Range(store[s]) : s \in SessionIds}

\* C2: a running invocation has allowWrite exactly when the phase of its
\* turn is apply, and every message stored as a draft (applied = false) was
\* produced by an invocation without allowWrite.
C2_WriteOnlyInApply ==
    /\ invoke.st = "running" => (allowWrite <=> turn.phase = "apply")
    /\ \A m \in StoredMessages : m.applied = "false" => ~m.grant

C2_Witness ==
    /\ invoke.st = "running"
    /\ turn.phase = "apply"
    /\ allowWrite
    /\ \E m \in StoredMessages : m.id = turn.source /\ m.applied = "false" /\ ~m.grant

\* C4: at most one sendMessage call is past its guard and not yet ended.
C4_SingleFlight == inFlight <= 1

C4_Witness ==
    /\ inFlight = 1
    /\ turns = MaxTurns
    /\ sendPc = "chat"
    /\ invoke.st = "running"
    /\ \E m \in StoredMessages : m.role = "assistant"

TraceAppended == reply.appended \/ effects > 0

\* a sendMessage call past its guard ends in this step
TurnEnds == sendPc # "idle" /\ sendPc' = "idle"

\* C16: when an apply turn that started from a draft ends, that draft is
\* stored with applied = true exactly when the trace of the turn contains a
\* successful append.
C16_AppliedIffAppended ==
    [][(TurnEnds /\ turn.allowWrite /\ turn.source # 0) =>
          ((\E m \in Range(store'[turn.session]) : m.id = turn.source /\ m.applied = "true")
              <=> TraceAppended)]_vars

\* C17: when an apply turn that started from a draft ends without a
\* successful append, that draft is the actionable draft again and the user
\* has been told of the failure or the stop.
C17_FailedApplyKeepsDraft ==
    [][(TurnEnds /\ turn.allowWrite /\ turn.source # 0 /\ ~TraceAppended) =>
          /\ actionableDraftId' = turn.source
          /\ notice' \in {"error: send failed", "info: stopped"}]_vars

\* the confirmation phrases among the texts of this model
ConfirmPhrases == {"queren zhuijia", "ok", "zhuijia"}

\* the id of the most recent assistant message shown, 0 without one
LastAssistantId ==
    LET a == {i \in 1..Len(messagesInSession) : messagesInSession[i].role = "assistant"}
    IN IF a = {} THEN 0 ELSE messagesInSession[CHOOSE i \in a : \A j \in a : j <= i].id

\* C18: whatever the user types is classified as apply only if there is a
\* pending draft (applied = false, not dismissed), the most recent assistant
\* message is that draft, and the text is a confirmation phrase.
C18_ApplyOnlyOnPendingDraft ==
    \A u \in UserTexts :
        inferContinuePhase(u) = "apply" =>
            /\ actionableDraftId # 0
            /\ LastAssistantId = actionableDraftId
            /\ Normalize(u) \in ConfirmPhrases

DiscardStarts == turns' = turns + 1 /\ pendingDiscards' # pendingDiscards

\* the step is the return of its addSessionMessage
DiscardEnds == turns' = turns /\ pendingDiscards' # pendingDiscards

\* neither step of a discard touches the invocation, the engine or a turn
DiscardInvokesNothing ==
    UNCHANGED <<invoke, allowWrite, enginePc, netCalls, batch, effects, sendPc, inFlight,
                loading>>

\* exactly one System note is added to the stored history of one session
OneSystemNote ==
    \E ses \in SessionIds :
        /\ store'[ses] = Append(store[ses], Msg(nextId, "system", "null", ShortText, FALSE))
        /\ \A t \in SessionIds \ {ses} : store'[t] = store[t]

\* C20 (as stated): a discard invokes nothing, dismisses the draft so that
\* it is no longer the actionable one, and records exactly one System note.
C20_DiscardRecordsOneNote ==
    [][/\ DiscardStarts =>
             /\ DiscardInvokesNothing
             /\ store' = store
             /\ actionableDraftId \in dismissedDraftIds'
             /\ actionableDraftId' # actionableDraftId
       /\ DiscardEnds =>
             /\ DiscardInvokesNothing
             /\ OneSystemNote]_vars

\* C20 (amended): a discard invokes nothing and dismisses the draft so that
\* it is no longer the actionable one; it records exactly one System note
\* when the store accepts it, and otherwise records none and tells the user
\* that the draft was discarded.
C20_DiscardRecordsNoteOrInforms ==
    [][/\ DiscardStarts =>
             /\ DiscardInvokesNothing
             /\ store' = store
             /\ actionableDraftId \in dismissedDraftIds'
             /\ actionableDraftId' # actionableDraftId
       /\ DiscardEnds =>
             /\ DiscardInvokesNothing
             /\ \/ OneSystemNote
                \/ store' = store /\ notice' = "info: discarded"]_vars

C20_Witness ==
    /\ dismissedDraftIds # {}
    /\ actionableDraftId = 0
    /\ invoke.st = "none"
    /\ sendPc = "idle"
    /\ \E m \in Range(store[currentSessionId]) : m.role = "system" /\ m.chars = ShortText
    /\ \E m \in Range(store[currentSessionId]) :
          m.applied = "false" /\ m.id \in dismissedDraftIds

\* a is an initial part of b
IsPrefix(a, b) == Len(a) <= Len(b) /\ \A i \in 1..Len(a) : a[i] = b[i]

\* the working history of the running sendMessage once the user message is stored
WorkingMessages == Append(turn.msgs, messagesInSession'[Len(messagesInSession')])

\* C21: when the user message of a turn has been stored, the turn goes to
\* compaction exactly when the estimate of the working history (a quarter
\* of its characters, rounded up, plus 4 per message) is strictly above
\* maxTokens * 0.8, and otherwise straight to the model call; compaction is
\* entered from nowhere else.
C21_CompactIffOverThreshold ==
    [][/\ (sendPc = "addUser" /\ sendPc' \in {"compact", "chat"}) =>
             (sendPc' = "compact"
                <=> ((SumChars(WorkingMessages) + 3) \div 4 + 4 * Len(WorkingMessages)) * 10
                        > COMPACT_maxTokens * 8)
       /\ (sendPc # "compact" /\ sendPc' = "compact") => sendPc = "addUser"]_vars

C21_Witness ==
    /\ sendPc = "compact"
    /\ Len(messagesForAi) > SafeCount
    /\ estimateTokensForMessages(messagesForAi) > 6400
    /\ invoke.st = "none"

\* the compaction call of the running turn returns successfully in this step
CompactSucceeds == sendPc = "compact" /\ sendPc' = "chat" /\ notice' = ""

\* the compaction call of the running turn fails in this step
CompactFails == sendPc = "compact" /\ sendPc' = "chat" /\ notice' = "error: compact failed"

\* C22: a successful compaction of a stored history longer than keepRecent
\* leaves one summary message followed by the last keepRecent messages it
\* had, in their order, and the panel shows exactly that.
C22_SummaryPlusTail ==
    [][(CompactSucceeds /\ Len(store[turn.session]) > COMPACT_keepRecent) =>
          LET old == store[turn.session]
              new == store'[turn.session]
          IN /\ Len(new) = 1 + COMPACT_keepRecent
             /\ new[1].role = "system"
             /\ new[1].id \notin {old[i].id : i \in 1..Len(old)}
             /\ \A k \in 1..COMPACT_keepRecent :
                   new[1 + k] = old[Len(old) - COMPACT_keepRecent + k]
             /\ messagesInSession' = new]_vars

C22_Witness ==
    /\ sendPc = "chat"
    /\ Len(store[1]) = 1 + COMPACT_keepRecent
    /\ store[1][1].role = "system"
    /\ store[1][1].id > PriorLen
    /\ messagesInSession = store[1]

\* C23: when the compaction call fails the turn goes on to the model call
\* with the last SafeCount messages of its working history, in their order.
C23_FallbackTruncation ==
    [][CompactFails =>
          LET w == messagesForAi
              n == IF Len(w) <= SafeCount THEN Len(w) ELSE SafeCount
          IN /\ Len(messagesForAi') = n
             /\ \A k \in 1..n : messagesForAi'[k] = w[Len(w) - n + k]
             /\ invoke'.st \in {"running", "rejected"}
             /\ loading']_vars

C23_Witness ==
    /\ sendPc = "chat"
    /\ invoke.st = "running"
    /\ Len(messagesForAi) = SafeCount
    /\ Len(store[turn.session]) > SafeCount
    /\ messagesForAi[1].id > 1

\* C24: the stored history is compacted only in the compaction step of a
\* turn, before its invocation has started; while an invocation runs the
\* stored history is at most extended and the messages passed to the
\* invocation do not change.
C24_NoCompactionDuringInvocation ==
    [][/\ invoke.st = "running" =>
             /\ \A ses \in SessionIds : IsPrefix(store[ses], store'[ses])
             /\ messagesForAi' = messagesForAi
       /\ (\E ses \in SessionIds : ~IsPrefix([i \in 1..Len(store[ses]) |-> store[ses][i].id],
                                              [i \in 1..Len(store'[ses]) |-> store'[ses][i].id]))
             => (sendPc = "compact" /\ invoke.st # "running" /\ enginePc = "none")]_vars

C24_Witness ==
    /\ invoke.st = "running"
    /\ enginePc = "start"
    /\ store[turn.session][1].role = "system"
    /\ messagesForAi = store[turn.session]
    /\ turn.phase = "apply"

\* a stored history without its metadata
Plain(msgs) == [i \in 1..Len(msgs) |-> [id |-> msgs[i].id, role |-> msgs[i].role,
                                         chars |-> msgs[i].chars]]

C29_AppendOnly ==
    [][sendPc # "compact" =>
          \A ses \in SessionIds : IsPrefix(Plain(store[ses]), Plain(store'[ses]))]_vars

C29_Witness ==
    /\ sendPc = "idle"
    /\ turns = MaxTurns
    /\ Len(store[1]) = PriorLen + 4
    /\ \E i \in 1..Len(store[1]) : store[1][i].applied = "true" /\ ~store[1][i].grant
    /\ IsPrefix(Plain(PriorHistory), Plain(store[1]))

\* C30: a turn that ends as stopped leaves an assistant message as the last
\* message of its session.
C30_CancelledTurnHasMessage ==
    [][(TurnEnds /\ notice' = "info: stopped") =>
          LET h == store'[turn.session]
          IN h # <<>> /\ h[Len(h)].role = "assistant" /\ h[Len(h)].id >= nextId - 1]_vars

(***************************************************************************)
(* Properties of the requests to the provider (specification SpecProvider) *)
(* and of the result of an invocation.                                     *)
(***************************************************************************)
\* the names of the headers of a request
HeaderNames(r) == {h.name : h \in r.headers}

\* C25: every request sent for a provider that has a key carries the
\* authentication header of the provider's vendor kind and no other:
\* Authorization: Bearer <key> and no vendor key header for an
\* openai-compatible provider, x-goog-api-key: <key> and no Authorization
\* for a google one, x-api-key: <key> and no Authorization for an anthropic
\* one.
C25_AuthHeaderByVendor ==
    apiKey # "" =>
       \A i \in 1..Len(requests) :
          LET r == requests[i]
              names == HeaderNames(r)
          IN CASE vendor = "google" ->
                     /\ Header("x-goog-api-key", "", apiKey) \in r.headers
                     /\ names \cap {"Authorization", "x-api-key"} = {}
               [] vendor = "anthropic" ->
                     /\ Header("x-api-key", "", apiKey) \in r.headers
                     /\ names \cap {"Authorization", "x-goog-api-key"} = {}
               [] OTHER ->
                     /\ Header("Authorization", "Bearer", apiKey) \in r.headers
                     /\ names \cap {"x-goog-api-key", "x-api-key"} = {}

\* the URL has a v1 segment
HasV1Segment(url) == \E i \in 1..(Len(url) - 1) : url[i] = "/" /\ url[i + 1] = "v1"

\* the model-listing requests sent so far
ModelsRequests == SelectSeq(requests, LAMBDA r : r.kind = "models")

\* C26: a model listing sends at most two requests; when the first, to a
\* base without /v1, returns 404, a second one with the same headers has
\* been sent to the /v1 path; a second request is sent in no case but after
\* a failure of the first that mentions 404 on a base without /v1; and the
\* listing ends with the outcome of the second request, its failure
\* included.
C26_RetryOnceOnV1 ==
    LET m == ModelsRequests IN
    /\ Len(m) <= 2
    /\ Len(responses) <= Len(m)
    /\ (Len(responses) >= 1 /\ responses[1].status = "404" /\ ~HasV1Segment(baseURL)) =>
          /\ Len(m) = 2
          /\ m[2].url = <<"h", "/", "v1", "/", "models">>
          /\ m[2].headers = m[1].headers
    /\ Len(m) = 2 =>
          /\ ~HasV1Segment(m[1].url)
          /\ HasV1Segment(m[2].url)
          /\ Len(responses) >= 1 /\ responses[1].status \in {"404", "failed 404"}
    /\ (enginePc = "exited" /\ Len(responses) = 2) =>
          /\ LastEvent.type = (IF responses[2].status = "ok" THEN "models" ELSE "error")
          /\ responses[2].status # "ok" => LastEvent.content = responses[2].status

C26_Witness ==
    /\ enginePc = "exited"
    /\ input = "fetch_models"
    /\ baseURL = <<"h", "/">>
    /\ Len(responses) = 2 /\ responses[1].status = "404" /\ responses[2].status = "500"
    /\ Len(requests) = 2
    /\ requests[2].url = <<"h", "/", "v1", "/", "models">>
    /\ LastEvent = [type |-> "error", content |-> "500"]

\* agent.ts Agent.run: what it returns, the text and the tool calls of the
\* result of generateText, which are those of its last step
AgentResult ==
    [content |-> text,
     toolCalls |-> IF finishReason = "tool-calls"
                   THEN [i \in 1..Len(batch) |-> batch[i].id] ELSE <<>>]

\* C27: an invocation that ends with done after steps that made tool calls
\* returns, and reports in its done event, the calls of all those steps: at
\* least one for each of them.
C27_OutputHasFullTrace ==
    (enginePc = "exited" /\ LastEvent.type = "done" /\ netCalls > 1) =>
        /\ Len(AgentResult.toolCalls)
              >= (IF finishReason = "tool-calls" THEN netCalls ELSE netCalls - 1)
        /\ "toolCalls" \in DOMAIN LastEvent

\* C31: a compact request that names a model outside a non-empty allow-list
\* issues no completion request.
C31_CompactUsesAllowedModel ==
    (input = "compact" /\ Cardinality(provider) > 0 /\ model \notin provider) =>
        (netCalls = 0 /\ requests = <<>>)

\* C32: whenever a step stores an assistant message with applied = true, or
\* sets applied = true on a stored one, the trace of the running turn
\* contains a successful append.
C32_AppliedMeansWritten ==
    [][\A ses \in SessionIds : \A i \in 1..Len(store'[ses]) :
          LET m == store'[ses][i] IN
          (/\ m.role = "assistant"
           /\ m.applied = "true"
           /\ ~\E k \in 1..Len(store[ses]) :
                   store[ses][k].id = m.id /\ store[ses][k].applied = "true")
             => TraceAppended]_vars

\* no two slashes follow each other in the URL
NoDoubledSlash(url) == \A i \in 1..(Len(url) - 1) : ~(url[i] = "/" /\ url[i + 1] = "/")

\* C33: the first request of a model listing goes to the base without the
\* slashes at its end followed by /models, whether or not the base ends in
\* /v1; no model-listing URL has a doubled slash; with a key, every
\* model-listing request carries Authorization: Bearer <key>; and a listing
\* that ends with a models event returns the ids of the last response,
\* each once.
C33_ModelsURLAndIds ==
    LET m == ModelsRequests IN
    /\ m # <<>> =>
          \E n \in 1..Len(baseURL) :
             /\ baseURL[n] # "/"
             /\ \A k \in (n + 1)..Len(baseURL) : baseURL[k] = "/"
             /\ m[1].url = SubSeq(baseURL, 1, n) \o <<"/", "models">>
    /\ \A i \in 1..Len(m) :
          /\ NoDoubledSlash(m[i].url)
          /\ apiKey # "" => Header("Authorization", "Bearer", apiKey) \in m[i].headers
    /\ (enginePc = "exited" /\ LastEvent.type = "models") =>
          LET body == responses[Len(responses)].body
              ids == LastEvent.models
          IN /\ Range(ids) = {Trim(body[i]) : i \in 1..Len(body)} \ {""}
             /\ Cardinality(Range(ids)) = Len(ids)

C33_Witness ==
    /\ enginePc = "exited"
    /\ baseURL = <<"h", "/", "v1", "/">>
    /\ apiKey = "k"
    /\ Len(requests) = 1
    /\ requests[1].url = <<"h", "/", "v1", "/", "models">>
    /\ responses = <<[status |-> "ok", body |-> <<"b", "a">>]>>
    /\ LastEvent.type = "models"
    /\ LastEvent.models = <<"a", "b">>

\* C34: a step of the panel changes the tool calls shown only in these
\* ways: the list is cleared; a call is added at the end with status
\* calling; or calls with status calling get status success or error and
\* their elapsed time.  A call that has status success or error keeps its
\* status and its elapsed time as long as it is shown.
C34_ToolCallLifecycle ==
    [][\/ pendingToolCalls' = <<>>
       \/ /\ Len(pendingToolCalls') = Len(pendingToolCalls) + 1
          /\ SubSeq(pendingToolCalls', 1, Len(pendingToolCalls)) = pendingToolCalls
          /\ pendingToolCalls'[Len(pendingToolCalls')].status = "calling"
       \/ /\ Len(pendingToolCalls') = Len(pendingToolCalls)
          /\ \A i \in 1..Len(pendingToolCalls) :
                LET old == pendingToolCalls[i]
                    new == pendingToolCalls'[i]
                IN \/ new = old
                   \/ /\ old.status = "calling"
                      /\ new.id = old.id
                      /\ new.status \in {"success", "error"}
                      /\ new.duration = "ms"]_vars

\* C35: a draft the user has discarded is never the actionable draft.
C35_DiscardedNeverActionable == actionableDraftId \notin discarded

\* C36: when the calls a turn awaits settle, a panel that is loading stops
\* loading; and the step that clears loading leaves the streaming text and
\* the list of pending tool calls empty.
C36_LoadingEventuallyCleared ==
    /\ loading ~> ~loading
    /\ [][(loading /\ ~loading') =>
             (streamingContent' = "" /\ pendingToolCalls' = <<>> /\ sendPc' = "idle")]_vars

C36_Witness ==
    /\ ~loading
    /\ sendPc = "idle"
    /\ notice = "error: send failed"
    /\ toolCallStartTimes # {}
    /\ pendingToolCalls = <<>>
    /\ streamingContent = ""
    /\ Len(store[1]) > PriorLen

\* C37: the engine writes done, models, compact_summary and error events
\* only when it ends; a run that has parsed its request line and has ended
\* by itself has written exactly one of them; and after it has ended it
\* writes no further event and dispatches no tool call.
C37_OneTerminalEvent ==
    /\ [](/\ \A i \in 1..Len(terminal) :
                terminal[i].type \in {"done", "models", "compact_summary", "error"}
          /\ Len(terminal) <= 1
          /\ enginePc # "exited" => terminal = <<>>
          /\ (enginePc = "exited" /\ input \notin {"eof", "malformed"}) => Len(terminal) = 1)
    /\ [][enginePc = "exited" =>
             (terminal' = terminal /\ batch' = batch /\ enginePc' = "exited")]_vars

C37_Witness ==
    /\ enginePc = "exited"
    /\ input = "chat"
    /\ Len(terminal) = 1
    /\ terminal[1].type = "error"
    /\ Len(batch) = 2
    /\ \E i \in 1..2 : batch[i].st = "calling"
    /\ invoke.st = "rejected"


(***************************************************************************)
(* Editor: Editor.tsx with useAutoSave.ts.  A content is a small number,   *)
(* a cursor a position in the document; the text before position 0 is     *)
(* empty.  A completion request is a record of what it closed over (seq,   *)
(* cursor, view) and of what happened since it was issued.                 *)
(***************************************************************************)
MaxContent == 2
MaxCursor == 1
MaxEdits == 4
MaxSeq == 3

Contents == 0..MaxContent
Cursors == 0..MaxCursor

\* useAutoSave.ts 74: hasUnsavedChanges: content !== lastSavedContent
hasUnsavedChanges(c, l) == c # l

\* the in-flight requests after the cursor went to p
Moved(calls, p) == {[r EXCEPT !.moved = r.moved \/ (p # cursor)] : r \in calls}

\* The effects that run after a render with content c, lastSavedContent l, initialContent ic and
\* status st; chapterChanged: chapterId and onSave are new.  useAutoSave.ts 15-17 (status),
\* 19-43 (the debounce timer), Editor.tsx 307-323 (reset to initialContent when nothing is unsaved).
Commit(c, l, ic, st, chapterChanged, cur, sel, sugg, calls) ==
    LET hookDeps == (c # value) \/ (l # lastSavedContent)
        editorDeps == \/ chapterChanged
                      \/ ic # initialContent
                      \/ hasUnsavedChanges(c, l) # hasUnsavedChanges(value, lastSavedContent)
    IN  /\ initialContent' = ic
        /\ IF editorDeps /\ ~hasUnsavedChanges(c, l)
           THEN \* resetAutoSave(initialContent); setValue(initialContent); view.setState(...)
                /\ value' = ic
                /\ lastSavedContent' = ic
                /\ status' = "saved"
                /\ timerRef' = <<>>
                /\ cursor' = 0
                /\ selectionEmpty' = TRUE
                /\ inlineCompletion' = 0
                /\ aiCompleteCalls' = {[r EXCEPT !.moved = r.moved \/ (cur # 0)] : r \in calls}
           ELSE /\ value' = c
                /\ lastSavedContent' = l
                /\ status' = IF hookDeps /\ c # l THEN "unsaved" ELSE st
                /\ timerRef' = IF hookDeps \/ chapterChanged
                               THEN (IF c # l THEN <<c>> ELSE <<>>)
                               ELSE timerRef
                /\ cursor' = cur
                /\ selectionEmpty' = sel
                /\ inlineCompletion' = sugg
                /\ aiCompleteCalls' = calls

\* Editor.tsx 234-259: a transaction of the user that changes the document or the selection:
\* setValue(next), then scheduleCompletion (137-147)
updateListener(c, p, e) ==
    /\ edits < MaxEdits
    /\ (c # value) \/ (p # cursor) \/ (e # selectionEmpty)
    /\ edits' = edits + 1
    /\ completionTimerRef' = e
    /\ Commit(c, lastSavedContent, initialContent, status, FALSE, p, e, 0, Moved(aiCompleteCalls, p))
    /\ UNCHANGED <<isSavingRef, onSaveCalls, saveFailed, timerSkipped, viewRef, completionSeqRef,
                   completingRef>>

timerFiresUnguarded ==
    /\ timerRef # <<>>
    /\ timerRef' = <<>>
    /\ isSavingRef' = TRUE
    /\ status' = "saving"
    /\ onSaveCalls' = Append(onSaveCalls, timerRef[1])
    /\ UNCHANGED <<timerSkipped, value, initialContent, lastSavedContent, edits, saveFailed, completionVars>>

\* useAutoSave.ts 24-37: the debounce callback, up to its await
timerFires ==
    /\ timerRef # <<>>
    /\ timerRef' = <<>>
    /\ IF isSavingRef
       THEN /\ timerSkipped' = TRUE
            /\ UNCHANGED <<isSavingRef, status, onSaveCalls>>
       ELSE /\ isSavingRef' = TRUE
            /\ status' = "saving"
            /\ onSaveCalls' = Append(onSaveCalls, timerRef[1])
            /\ UNCHANGED timerSkipped
    /\ UNCHANGED <<value, initialContent, lastSavedContent, edits, saveFailed, completionVars>>

\* useAutoSave.ts 45-52: save(), called by Mod-s (Editor.tsx 224-230), up to its await;
\* a call that returns at one of its guards changes nothing
save ==
    /\ value # lastSavedContent
    /\ ~isSavingRef
    /\ timerRef' = <<>>
    /\ isSavingRef' = TRUE
    /\ status' = "saving"
    /\ onSaveCalls' = Append(onSaveCalls, value)
    /\ UNCHANGED <<value, initialContent, lastSavedContent, edits, saveFailed, timerSkipped, completionVars>>

\* the sequence without its i-th element
RemoveAt(seq, i) == SubSeq(seq, 1, i - 1) \o SubSeq(seq, i + 1, Len(seq))

\* useAutoSave.ts 29-36 and 53-62: onSave resolved: setLastSavedContent(content); setStatus("saved")
onSaveResolves ==
    \E i \in DOMAIN onSaveCalls :
        /\ onSaveCalls' = RemoveAt(onSaveCalls, i)
        /\ isSavingRef' = FALSE
        /\ Commit(value, onSaveCalls[i], initialContent, "saved", FALSE, cursor, selectionEmpty,
                  inlineCompletion, aiCompleteCalls)
        /\ UNCHANGED <<edits, saveFailed, timerSkipped, viewRef, completionTimerRef, completionSeqRef,
                       completingRef>>

\* useAutoSave.ts 32-36 and 56-62: onSave rejected: setStatus("unsaved")
onSaveRejects ==
    \E i \in DOMAIN onSaveCalls :
        /\ onSaveCalls' = RemoveAt(onSaveCalls, i)
        /\ isSavingRef' = FALSE
        /\ status' = "unsaved"
        /\ saveFailed' = TRUE
        /\ UNCHANGED <<value, initialContent, lastSavedContent, timerRef, edits, timerSkipped,
                       completionVars>>

\* MainLayout.tsx 83-104: the layout loaded the content of the chapter again: a new initialContent
refreshCurrentChapterContent(ic) ==
    /\ edits < MaxEdits
    /\ ic # initialContent
    /\ edits' = edits + 1
    /\ Commit(value, lastSavedContent, ic, status, FALSE, cursor, selectionEmpty, inlineCompletion,
              aiCompleteCalls)
    /\ UNCHANGED <<isSavingRef, onSaveCalls, saveFailed, timerSkipped, viewRef, completionTimerRef,
                   completionSeqRef, completingRef>>

\* Editor.tsx 120-305: another chapter: the cleanup of the effect (298-304), then a new view
\* (287-296) with its first scheduleCompletion; onSave is a new function (MainLayout.tsx 205-215)
ChapterSwitch ==
    /\ edits < MaxEdits
    /\ completionSeqRef < MaxSeq
    /\ edits' = edits + 1
    /\ completionSeqRef' = completionSeqRef + 1
    /\ completingRef' = FALSE
    /\ viewRef' = viewRef + 1
    /\ completionTimerRef' = TRUE
    /\ Commit(value, lastSavedContent, initialContent, status, TRUE, 0, TRUE, 0,
              {[r EXCEPT !.switched = TRUE] : r \in aiCompleteCalls})
    /\ UNCHANGED <<isSavingRef, onSaveCalls, saveFailed, timerSkipped>>

\* Editor.tsx 144-160: the completion timer fired: requestCompletion, up to its await
requestCompletion ==
    /\ completionTimerRef
    /\ completionTimerRef' = FALSE
    /\ IF selectionEmpty /\ cursor > 0 /\ completionSeqRef < MaxSeq
       THEN /\ completingRef' = TRUE
            /\ completionSeqRef' = completionSeqRef + 1
            /\ aiCompleteCalls' = {[r EXCEPT !.newer = TRUE] : r \in aiCompleteCalls} \cup
                                  {[seq |-> completionSeqRef + 1, cursor |-> cursor, view |-> viewRef,
                                    moved |-> FALSE, cancelled |-> FALSE, switched |-> FALSE,
                                    newer |-> FALSE]}
       ELSE UNCHANGED <<completingRef, completionSeqRef, aiCompleteCalls>>
    /\ UNCHANGED <<autoSaveVars, viewRef, cursor, selectionEmpty, inlineCompletion>>

\* Editor.tsx 170-173: the response of request r is still wanted
StillWanted(r) ==
    /\ completionSeqRef = r.seq
    /\ viewRef = r.view
    /\ selectionEmpty
    /\ cursor = r.cursor

\* Editor.tsx 162-195: aiComplete settled.  outcome: "text" (a text is left once the response is
\* cleaned), "blank" (nothing is left) or "rejected" (the catch branch)
aiCompleteSettles(r, outcome) ==
    /\ r \in aiCompleteCalls
    /\ aiCompleteCalls' = aiCompleteCalls \ {r}
    /\ inlineCompletion' = IF StillWanted(r) /\ outcome = "text" THEN r.seq ELSE inlineCompletion
    /\ completingRef' = IF completionSeqRef = r.seq THEN FALSE ELSE completingRef
    /\ UNCHANGED <<autoSaveVars, viewRef, cursor, selectionEmpty, completionTimerRef, completionSeqRef>>

\* Editor.tsx 211-222: Escape on a shown suggestion; without one the key does nothing here
Escape ==
    /\ inlineCompletion # 0
    /\ completionSeqRef < MaxSeq
    /\ inlineCompletion' = 0
    /\ completionSeqRef' = completionSeqRef + 1
    /\ completingRef' = FALSE
    /\ aiCompleteCalls' = {[r EXCEPT !.cancelled = TRUE] : r \in aiCompleteCalls}
    /\ UNCHANGED <<autoSaveVars, viewRef, cursor, selectionEmpty, completionTimerRef>>

\* what no step of the editor touches
editorRest == <<panelVars, hostVars, engineVars, turnVars, stopInDispatch>>

NextEditor ==
    \/ \E c \in Contents, p \in Cursors, e \in BOOLEAN : updateListener(c, p, e) /\ UNCHANGED editorRest
    \/ timerFires /\ UNCHANGED editorRest
    \/ save /\ UNCHANGED editorRest
    \/ onSaveResolves /\ UNCHANGED editorRest
    \/ onSaveRejects /\ UNCHANGED editorRest
    \/ \E ic \in Contents : refreshCurrentChapterContent(ic) /\ UNCHANGED editorRest
    \/ ChapterSwitch /\ UNCHANGED editorRest
    \/ requestCompletion /\ UNCHANGED editorRest
    \/ \E r \in aiCompleteCalls, outcome \in {"text", "blank", "rejected"} :
           aiCompleteSettles(r, outcome) /\ UNCHANGED editorRest
    \/ Escape /\ UNCHANGED editorRest

\* the window on an open chapter, the panel idle
InitEditor ==
    /\ InitPanel
    /\ mode = "Continue"
    /\ chapterResolved
    /\ messagesInSession = <<>>

SpecEditor == InitEditor /\ [][NextEditor]_vars

\* useAutoSave.ts 24, 29: a timer that was set fires, an awaited onSave that succeeds returns
TimersFireAndSavesReturn ==
    /\ WF_vars(timerFires /\ UNCHANGED editorRest)
    /\ WF_vars(onSaveResolves /\ UNCHANGED editorRest)

SpecEditorFair == SpecEditor /\ TimersFireAndSavesReturn

\* C38: in useAutoSave at most one onSave call is in flight at any time, whatever the order of
\* edits, timer expiries and manual saves; isSavingRef is set exactly while one is.
C38_OneSaveInFlight ==
    /\ Len(onSaveCalls) <= 1
    /\ isSavingRef <=> (onSaveCalls # <<>>)

\* a save is in flight, the user has typed since, and the debounce callback of that edit has
\* come and gone without saving
C38_Witness ==
    /\ Len(onSaveCalls) = 1
    /\ timerSkipped
    /\ timerRef = <<>>
    /\ value # onSaveCalls[1]
    /\ value # lastSavedContent

\* C39: when every onSave call succeeds, the editor ends with status "saved" and the last saved
\* content equal to the current content, and stays so once the user has stopped typing - also
\* when the debounce callback of the last edit was skipped because a save was in flight.
C39_EventuallySaved ==
    <>[](saveFailed \/ (status = "saved" /\ lastSavedContent = value /\ onSaveCalls = <<>>))

\* C40: a completion response is shown only if, since its request was issued, no newer request
\* was started, no Escape-cancel or chapter switch occurred, and the cursor has not moved.
C40_StaleResponseNeverShown ==
    [][\A r \in aiCompleteCalls :
          (inlineCompletion' = r.seq /\ inlineCompletion # r.seq) =>
              (~r.newer /\ ~r.cancelled /\ ~r.switched /\ ~r.moved)]_vars


====
